---------------------------- MODULE Spec2Model ----------------------------
(***************************************************************************)
(* A model of src/lib/utils.ts: the format validator (validateFormat), the *)
(* converters behind convertToGo (jsonToGo with inferGoType,               *)
(* sqlToGoStruct with getGoType and generateTags, protoToGo, xmlToGo,      *)
(* csvToGo) and the string helpers they use.                               *)
(*                                                                         *)
(* Text is a sequence of one-character strings, so that trimming,          *)
(* splitting, case conversion and regular-expression matching are          *)
(* computed as the code computes them.  The regular expressions of the     *)
(* source are written as syntax trees and run by a backtracking matcher    *)
(* with JavaScript's priorities (leftmost start, alternatives in order,    *)
(* greedy before shorter, lazy before longer).                             *)
(***************************************************************************)
EXTENDS Integers, Sequences, FiniteSets, TLC

VARIABLES
    entry,      \* the entry point of the current call: "convert", "validate", "jsonToGo"
    kind,       \* the format kind argument of the call
    input,      \* the input text of the call (a sequence of characters)
    options,    \* the SQLOptions argument, or Absent
    parts,      \* the pieces the input text was assembled from (for stating claims)
    heap,       \* the in-memory object graph handed to jsonToGo
    regexLeft,  \* the lastIndex the column regular expression of the last
                \* sqlToGoStruct call ended with
    result,     \* the outcome of the call, Pending before it ran
    calls       \* the earlier calls of this run, oldest first: <<kind, input, options, result>>

vars == <<entry, kind, input, options, parts, heap, regexLeft, result, calls>>

-----------------------------------------------------------------------------
(* Characters and strings                                                  *)

\* the backquote character U+0060, which cannot be written inside a string
Bq == "BACKQUOTE"

LowerSeq == <<"a","b","c","d","e","f","g","h","i","j","k","l","m",
              "n","o","p","q","r","s","t","u","v","w","x","y","z">>
UpperSeq == <<"A","B","C","D","E","F","G","H","I","J","K","L","M",
              "N","O","P","Q","R","S","T","U","V","W","X","Y","Z">>
Lowers == {LowerSeq[j] : j \in 1..26}
Uppers == {UpperSeq[j] : j \in 1..26}
Digits == {"0","1","2","3","4","5","6","7","8","9"}
\* \w and \s of a JavaScript regular expression
WordCh == Lowers \cup Uppers \cup Digits \cup {"_"}
WsCh == {" ", "\n", "\t", "\r"}

UpMap == [c \in Lowers |-> UpperSeq[CHOOSE j \in 1..26 : LowerSeq[j] = c]]
LowMap == [c \in Uppers |-> LowerSeq[CHOOSE j \in 1..26 : UpperSeq[j] = c]]
UpCh(c) == IF c \in Lowers THEN UpMap[c] ELSE c
LowCh(c) == IF c \in Uppers THEN LowMap[c] ELSE c

toUpperCase(s) == [j \in 1..Len(s) |-> UpCh(s[j])]
toLowerCase(s) == [j \in 1..Len(s) |-> LowCh(s[j])]

\* s.slice(a) with 0-based a >= 0
sliceFrom(s, a) == IF a >= Len(s) THEN <<>> ELSE SubSeq(s, a + 1, Len(s))
\* the characters at 1-based positions a .. b-1
Sub(s, a, b) == IF b <= a THEN <<>> ELSE SubSeq(s, a, b - 1)

\* String.prototype.trim
trim(s) ==
    LET keep == {j \in 1..Len(s) : s[j] \notin WsCh}
    IN  IF keep = {} THEN <<>>
        ELSE SubSeq(s, CHOOSE a \in keep : \A b \in keep : a <= b,
                       CHOOSE a \in keep : \A b \in keep : a >= b)

\* s.startsWith(p), and s.includes(p)
startsWith(s, p) == Len(p) <= Len(s) /\ SubSeq(s, 1, Len(p)) = p
includes(s, p) ==
    \E a \in 1..(Len(s) + 1) : a + Len(p) - 1 <= Len(s) /\ SubSeq(s, a, a + Len(p) - 1) = p
endsWith(s, p) == Len(p) <= Len(s) /\ SubSeq(s, Len(s) - Len(p) + 1, Len(s)) = p

RECURSIVE Concat(_)
\* the concatenation of a sequence of strings (by halves, to keep the
\* evaluation shallow)
Concat(ss) ==
    IF ss = <<>> THEN <<>>
    ELSE IF Len(ss) = 1 THEN ss[1]
    ELSE Concat(SubSeq(ss, 1, Len(ss) \div 2))
         \o Concat(SubSeq(ss, Len(ss) \div 2 + 1, Len(ss)))

\* Array.prototype.join
join(ss, sep) ==
    Concat([j \in 1..Len(ss) |-> IF j = 1 THEN ss[j] ELSE sep \o ss[j]])

\* the k-th smallest element of a set of numbers
Nth(set, k) == CHOOSE a \in set : Cardinality({b \in set : b <= a}) = k

\* str.charAt(0).toUpperCase() + str.slice(1)
capitalizeFirst(str) ==
    IF str = <<>> THEN <<>> ELSE <<UpCh(str[1])>> \o sliceFrom(str, 1)

-----------------------------------------------------------------------------
(* Regular expressions.  A pattern is a syntax tree; RxM runs the list k of *)
(* the nodes still to be matched at position i (1-based) of the subject s  *)
(* and returns the first success in JavaScript's backtracking order.       *)

\* A pattern is a sequence of nodes, matched one after the other.
Lit(c) == <<[op |-> "lit", c |-> c]>>
In(set) == <<[op |-> "set", set |-> set, neg |-> FALSE]>>
NotIn(set) == <<[op |-> "set", set |-> set, neg |-> TRUE]>>
\* the patterns of the list, one after the other
Cat(list) == Concat(list)
\* the characters cs, literally
Str(cs) == [j \in 1..Len(cs) |-> [op |-> "lit", c |-> cs[j]]]
\* p1|p2|...
Alt(list) == <<[op |-> "alt", a |-> list]>>
\* (?:p)?
Opt(p) == <<[op |-> "alt", a |-> <<p, <<>>>>]>>
\* (?:p)*
Star(p) == <<[op |-> "star", a |-> p]>>
\* X*, X+, X*? for a character class X: at least min characters
Rep(cls, min) == <<[op |-> "rep", cls |-> cls[1], min |-> min, lazy |-> FALSE]>>
LazyRep(cls, min) == <<[op |-> "rep", cls |-> cls[1], min |-> min, lazy |-> TRUE]>>
\* capture group n
Grp(n, p) == <<[op |-> "grp", n |-> n, a |-> p]>>
\* backreference \n
Ref(n) == <<[op |-> "ref", n |-> n]>>
\* ^ and $
Bol == <<[op |-> "bol"]>>
Eol == <<[op |-> "eol"]>>

RxFail == [ok |-> FALSE]
\* <<0, 0>> is a group that did not take part in the match
NoCaps(ng) == [g \in 1..ng |-> <<0, 0>>]

ClsOk(cls, c) == (c \in cls.set) # cls.neg
\* the length of the longest run of class characters from position i
MaxRun(cls, s, i) ==
    LET stops == {j \in i..Len(s) : ~ClsOk(cls, s[j])}
    IN  IF stops = {} THEN Len(s) + 1 - i
        ELSE (CHOOSE a \in stops : \A b \in stops : a <= b) - i

RECURSIVE RxM(_, _, _, _, _)

\* the first success: first, or else the first of the later candidates
FirstOk(first, rest) ==
    IF first.ok THEN first
    ELSE IF rest = <<>> THEN RxFail
    ELSE Head(rest)

\* the continuation k after n characters, for the first n in the order tried
\* (from `from' towards `to') that lets it succeed
RxTry(k, s, i, caps, fl, from, to) ==
    LET step == IF from <= to THEN 1 ELSE -1
        count == IF from <= to THEN to - from ELSE from - to
    IN  FirstOk(RxM(k, s, i + from, caps, fl),
                SelectSeq([d \in 1..count |-> RxM(k, s, i + from + step * d, caps, fl)],
                          LAMBDA r : r.ok))

\* one character against a literal or a class
ChOk(h, c, fl) ==
    IF h.op = "lit" THEN (IF fl.i THEN UpCh(c) = UpCh(h.c) ELSE c = h.c)
    ELSE ClsOk(h, c)
\* the number of leading one-character nodes of k
Simple(k) ==
    LET other == {j \in 1..Len(k) : k[j].op \notin {"lit", "set"}}
    IN  IF other = {} THEN Len(k) ELSE (CHOOSE a \in other : \A b \in other : a <= b) - 1

RxM(k, s, i, caps, fl) ==
    IF k = <<>> THEN [ok |-> TRUE, end |-> i, caps |-> caps]
    ELSE IF Simple(k) > 0 THEN
      \* the literals and classes at the head of k are matched together
      IF i + Simple(k) - 1 <= Len(s)
         /\ \A j \in 1..Simple(k) : ChOk(k[j], s[i + j - 1], fl)
      THEN RxM(SubSeq(k, Simple(k) + 1, Len(k)), s, i + Simple(k), caps, fl)
      ELSE RxFail
    ELSE
      LET h == Head(k)
          t == Tail(k)
      IN CASE h.op = "alt" ->
                IF h.a = <<>> THEN RxFail
                ELSE LET r == RxM(Head(h.a) \o t, s, i, caps, fl)
                     IN  IF r.ok THEN r
                         ELSE RxM(Alt(Tail(h.a)) \o t, s, i, caps, fl)
           [] h.op = "star" ->
                LET r == RxM(h.a \o <<[op |-> "loop", a |-> h.a, from |-> i]>> \o t,
                             s, i, caps, fl)
                IN  IF r.ok THEN r ELSE RxM(t, s, i, caps, fl)
           [] h.op = "loop" ->
                \* an iteration that consumed nothing is abandoned
                IF i = h.from THEN RxFail
                ELSE RxM(Star(h.a) \o t, s, i, caps, fl)
           [] h.op = "rep" ->
                LET mx == MaxRun(h.cls, s, i)
                IN  IF mx < h.min THEN RxFail
                    ELSE IF h.lazy THEN RxTry(t, s, i, caps, fl, h.min, mx)
                    ELSE RxTry(t, s, i, caps, fl, mx, h.min)
           [] h.op = "grp" ->
                RxM(h.a \o <<[op |-> "end", n |-> h.n, from |-> i]>> \o t, s, i, caps, fl)
           [] h.op = "end" ->
                RxM(t, s, i, [caps EXCEPT ![h.n] = <<h.from, i>>], fl)
           [] h.op = "ref" ->
                LET w == Sub(s, caps[h.n][1], caps[h.n][2])
                IN  IF i + Len(w) - 1 <= Len(s) /\ Sub(s, i, i + Len(w)) = w
                    THEN RxM(t, s, i + Len(w), caps, fl) ELSE RxFail
           [] h.op = "bol" ->
                IF i = 1 \/ (fl.m /\ s[i - 1] \in {"\n", "\r"})
                THEN RxM(t, s, i, caps, fl) ELSE RxFail
           [] h.op = "eol" ->
                IF i = Len(s) + 1 \/ (fl.m /\ s[i] \in {"\n", "\r"})
                THEN RxM(t, s, i, caps, fl) ELSE RxFail

\* the leftmost match starting at position st or later
RxHit(a, r) ==
    IF r.ok THEN [ok |-> TRUE, index |-> a, end |-> r.end, caps |-> r.caps] ELSE RxFail
RxAt(re, ng, fl, s, a) == RxHit(a, RxM(re, s, a, NoCaps(ng), fl))
RxSearch(re, ng, fl, s, st) ==
    FirstOk(RxAt(re, ng, fl, s, st),
            SelectSeq([d \in 1..(Len(s) + 1 - st) |-> RxAt(re, ng, fl, s, st + d)],
                      LAMBDA r : r.ok))

\* regex.exec(s) of a regular expression with the g flag and the given
\* lastIndex (0-based); without the g flag lastIndex is 0
exec(re, ng, fl, s, lastIndex) ==
    IF lastIndex > Len(s) THEN RxFail ELSE RxSearch(re, ng, fl, s, lastIndex + 1)

\* regex.test(s) and the truthiness of s.match(regex), without the g flag
test(re, ng, fl, s) == exec(re, ng, fl, s, 0).ok

\* match[n]: the empty string also stands for undefined
Cap(s, r, n) == Sub(s, r.caps[n][1], r.caps[n][2])
HasCap(r, n) == r.caps[n] # <<0, 0>>
\* match[0]
Cap0(s, r) == Sub(s, r.index, r.end)

NoFlags == [i |-> FALSE, m |-> FALSE]
FlagI == [i |-> TRUE, m |-> FALSE]
FlagIM == [i |-> TRUE, m |-> TRUE]

-----------------------------------------------------------------------------
(* Helpers shared by the converters                                        *)

Quote == Alt(<<Lit(Bq), Lit("\""), Lit("'")>>)
Ws == In(WsCh)
Wd == In(WordCh)
\* [^\s,]
NotWsComma == NotIn(WsCh \cup {","})

\* s.split(c) for a one-character separator c
splitCh(s, c) ==
    LET at == {j \in 1..Len(s) : s[j] = c}
        n == Cardinality(at)
        edge == [j \in 0..(n + 1) |->
                   IF j = 0 THEN 0 ELSE IF j = n + 1 THEN Len(s) + 1 ELSE Nth(at, j)]
    IN  [j \in 1..(n + 1) |-> Sub(s, edge[j - 1] + 1, edge[j])]

\* s.replace(/c/g, rep) for a character c
replaceAllCh(s, c, rep) ==
    Concat([j \in 1..Len(s) |-> IF s[j] = c THEN rep ELSE <<s[j]>>])

\* s.replace(/\s+/g, ' ')
collapseWs(s) ==
    Concat([j \in 1..Len(s) |->
              IF s[j] \notin WsCh THEN <<s[j]>>
              ELSE IF j > 1 /\ s[j - 1] \in WsCh THEN <<>>
              ELSE <<" ">>])

\* s.replace(p, r) for a string pattern p: the first occurrence only
replaceFirst(s, p, r) ==
    LET at == {a \in 1..(Len(s) + 1) :
                 a + Len(p) - 1 <= Len(s) /\ SubSeq(s, a, a + Len(p) - 1) = p}
    IN  IF at = {} THEN s
        ELSE LET a == CHOOSE x \in at : \A y \in at : x <= y
             IN  Sub(s, 1, a) \o r \o sliceFrom(s, a + Len(p) - 1)

\* the outcome of a call that returned text (fields: the field lines it was
\* built from), and of one that threw.  The messages of the source are
\* Chinese texts; each is named here by an English rendering, one per message.
Returned(text, fields, imports) ==
    [status |-> "ok", error |-> "", text |-> text, fields |-> fields, imports |-> imports]
Threw(error) ==
    [status |-> "error", error |-> error, text |-> <<>>, fields |-> <<>>, imports |-> <<>>]
Pending ==
    [status |-> "pending", error |-> "", text |-> <<>>, fields |-> <<>>, imports |-> <<>>]

\* options === undefined
Undefined == [undefined |-> TRUE]

reservedWords == {
    <<"c","r","e","a","t","e">>, <<"u","p","d","a","t","e">>, <<"d","e","l","e","t","e">>, <<"s","e","l","e","c","t">>, <<"i","n","s","e","r","t">>,
    <<"f","r","o","m">>, <<"w","h","e","r","e">>, <<"g","r","o","u","p">>, <<"o","r","d","e","r">>, <<"h","a","v","i","n","g">>, <<"l","i","m","i","t">>,
    <<"o","f","f","s","e","t">>, <<"j","o","i","n">>, <<"u","n","i","o","n">>, <<"t","y","p","e">>, <<"i","n","t","e","r","f","a","c","e">>, <<"s","t","r","u","c","t">>,
    <<"f","u","n","c">>, <<"p","a","c","k","a","g","e">>, <<"i","m","p","o","r","t">>, <<"m","a","p">>, <<"c","h","a","n">>, <<"g","o">>, <<"d","e","f","e","r">>}

toPascalCase(str) ==
    LET lower == toLowerCase(str)
        res == IF startsWith(lower, <<"t","_">>) THEN sliceFrom(lower, 2)
               ELSE IF startsWith(lower, <<"t","b","l","_">>) THEN sliceFrom(lower, 4)
               ELSE lower
        words == splitCh(res, "_")
    IN  IF res \in reservedWords THEN capitalizeFirst(res) \o <<"F","i","e","l","d">>
        ELSE Concat([j \in 1..Len(words) |-> capitalizeFirst(words[j])])

-----------------------------------------------------------------------------
(* generateTags                                                            *)

\* s.replace(regex, '$1'), m being the match of the regex in s
replaceMatch(s, m) ==
    IF m.ok THEN Sub(s, 1, m.index) \o Cap(s, m, 1) \o sliceFrom(s, m.end - 1)
    ELSE s

\* defaultValue.replace(/^['"](.*)['"]$/, '$1')
cleanDefault(defaultValue) ==
    replaceMatch(defaultValue,
                 exec(Cat(<<Bol, In({"'", "\""}), Grp(1, Rep(NotIn({"\n", "\r"}), 0)),
                            In({"'", "\""}), Eol>>), 1, NoFlags, defaultValue, 0))

generateTags(fieldName, opts, comment, defaultValue) ==
    LET low == toLowerCase(fieldName)
        first == <<"j","s","o","n",":","\"">> \o low \o <<"\""," ","y","a","m","l",":","\"">> \o low \o <<"\"">>
        escDq(s) == replaceAllCh(s, "\"", <<"\\","\"">>)
        escSq(s) == replaceAllCh(s, "'", <<"\\","'">>)
        tags ==
          CASE opts.tagType = "db" ->
                 <<first, <<"d","b",":","\"">> \o low \o <<"\"">>>>
                 \o (IF defaultValue # <<>>
                     THEN <<<<"d","e","f","a","u","l","t",":","\"">> \o escDq(defaultValue) \o <<"\"">>>> ELSE <<>>)
            [] opts.tagType = "gorm" ->
                 LET gormTag ==
                       <<<<"c","o","l","u","m","n",":">> \o low>>
                       \o (IF comment # <<>>
                           THEN <<<<"c","o","m","m","e","n","t",":","'">> \o escSq(comment) \o <<"'">>>> ELSE <<>>)
                       \o (IF defaultValue # <<>>
                           THEN <<<<"d","e","f","a","u","l","t",":">> \o cleanDefault(defaultValue)>> ELSE <<>>)
                 IN  <<first, <<"g","o","r","m",":","\"">> \o join(gormTag, <<";">>) \o <<"\"">>>>
            [] opts.tagType = "xorm" ->
                 LET xormTag ==
                       <<<<"'">> \o low \o <<"'">>>>
                       \o (IF comment # <<>>
                           THEN <<<<"c","o","m","m","e","n","t","(","'">> \o escSq(comment) \o <<"'",")">>>> ELSE <<>>)
                       \o (IF defaultValue # <<>>
                           THEN <<<<"d","e","f","a","u","l","t","(">> \o cleanDefault(defaultValue) \o <<")">>>>
                           ELSE <<>>)
                 IN  <<first, <<"x","o","r","m",":","\"">> \o join(xormTag, <<" ">>) \o <<"\"">>>>
            [] OTHER ->
                 <<first>>
                 \o (IF comment # <<>>
                     THEN <<<<"c","o","m","m","e","n","t",":","\"">> \o escDq(comment) \o <<"\"">>>> ELSE <<>>)
                 \o (IF defaultValue # <<>>
                     THEN <<<<"d","e","f","a","u","l","t",":","\"">> \o escDq(defaultValue) \o <<"\"">>>> ELSE <<>>)
    IN  <<Bq>> \o join(tags, <<" ">>) \o <<Bq>>

-----------------------------------------------------------------------------
(* getGoType and its per-dialect tables                                    *)

\* typeMap.mysql: the entries in the order of the object literal
typeMap_mysql(isUnsigned, typeParams) == <<
    <<<<"I","N","T">>, IF isUnsigned THEN <<"u","i","n","t">> ELSE <<"i","n","t">>>>,
    <<<<"T","I","N","Y","I","N","T">>, IF isUnsigned THEN <<"u","i","n","t","8">> ELSE <<"i","n","t","8">>>>,
    <<<<"S","M","A","L","L","I","N","T">>, IF isUnsigned THEN <<"u","i","n","t","1","6">> ELSE <<"i","n","t","1","6">>>>,
    <<<<"M","E","D","I","U","M","I","N","T">>, IF isUnsigned THEN <<"u","i","n","t","3","2">> ELSE <<"i","n","t","3","2">>>>,
    <<<<"B","I","G","I","N","T">>, IF isUnsigned THEN <<"u","i","n","t","6","4">> ELSE <<"i","n","t","6","4">>>>,
    <<<<"D","E","C","I","M","A","L">>, <<"f","l","o","a","t","6","4">>>>,
    <<<<"N","U","M","E","R","I","C">>, <<"f","l","o","a","t","6","4">>>>,
    <<<<"F","L","O","A","T">>, <<"f","l","o","a","t","3","2">>>>,
    <<<<"D","O","U","B","L","E">>, <<"f","l","o","a","t","6","4">>>>,
    <<<<"B","I","T">>, <<"u","i","n","t","8">>>>,
    <<<<"C","H","A","R">>, <<"s","t","r","i","n","g">>>>,
    <<<<"V","A","R","C","H","A","R">>, <<"s","t","r","i","n","g">>>>,
    <<<<"T","I","N","Y","T","E","X","T">>, <<"s","t","r","i","n","g">>>>,
    <<<<"T","E","X","T">>, <<"s","t","r","i","n","g">>>>,
    <<<<"M","E","D","I","U","M","T","E","X","T">>, <<"s","t","r","i","n","g">>>>,
    <<<<"L","O","N","G","T","E","X","T">>, <<"s","t","r","i","n","g">>>>,
    <<<<"B","I","N","A","R","Y">>, <<"[","]","b","y","t","e">>>>,
    <<<<"V","A","R","B","I","N","A","R","Y">>, <<"[","]","b","y","t","e">>>>,
    <<<<"T","I","N","Y","B","L","O","B">>, <<"[","]","b","y","t","e">>>>,
    <<<<"B","L","O","B">>, <<"[","]","b","y","t","e">>>>,
    <<<<"M","E","D","I","U","M","B","L","O","B">>, <<"[","]","b","y","t","e">>>>,
    <<<<"L","O","N","G","B","L","O","B">>, <<"[","]","b","y","t","e">>>>,
    <<<<"D","A","T","E">>, <<"t","i","m","e",".","T","i","m","e">>>>,
    <<<<"T","I","M","E">>, <<"t","i","m","e",".","T","i","m","e">>>>,
    <<<<"D","A","T","E","T","I","M","E">>, <<"t","i","m","e",".","T","i","m","e">>>>,
    <<<<"T","I","M","E","S","T","A","M","P">>, <<"t","i","m","e",".","T","i","m","e">>>>,
    <<<<"Y","E","A","R">>, <<"i","n","t">>>>,
    <<<<"B","O","O","L","E","A","N">>, <<"b","o","o","l">>>>,
    <<<<"B","O","O","L">>, <<"b","o","o","l">>>>,
    <<<<"E","N","U","M">>, <<"s","t","r","i","n","g">>>>,
    <<<<"S","E","T">>, <<"s","t","r","i","n","g">>>>,
    <<<<"J","S","O","N">>, <<"j","s","o","n",".","R","a","w","M","e","s","s","a","g","e">>>>
>>

\* typeMap.postgres: the entries in the order of the object literal
typeMap_postgres(isUnsigned, typeParams) == <<
    <<<<"S","M","A","L","L","I","N","T">>, IF isUnsigned THEN <<"u","i","n","t","1","6">> ELSE <<"i","n","t","1","6">>>>,
    <<<<"I","N","T","E","G","E","R">>, IF isUnsigned THEN <<"u","i","n","t","3","2">> ELSE <<"i","n","t">>>>,
    <<<<"B","I","G","I","N","T">>, IF isUnsigned THEN <<"u","i","n","t","6","4">> ELSE <<"i","n","t","6","4">>>>,
    <<<<"D","E","C","I","M","A","L">>, <<"f","l","o","a","t","6","4">>>>,
    <<<<"N","U","M","E","R","I","C">>, <<"f","l","o","a","t","6","4">>>>,
    <<<<"R","E","A","L">>, <<"f","l","o","a","t","3","2">>>>,
    <<<<"D","O","U","B","L","E"," ","P","R","E","C","I","S","I","O","N">>, <<"f","l","o","a","t","6","4">>>>,
    <<<<"M","O","N","E","Y">>, <<"f","l","o","a","t","6","4">>>>,
    <<<<"C","H","A","R">>, <<"s","t","r","i","n","g">>>>,
    <<<<"C","H","A","R","A","C","T","E","R">>, <<"s","t","r","i","n","g">>>>,
    <<<<"V","A","R","C","H","A","R">>, <<"s","t","r","i","n","g">>>>,
    <<<<"C","H","A","R","A","C","T","E","R"," ","V","A","R","Y","I","N","G">>, <<"s","t","r","i","n","g">>>>,
    <<<<"T","E","X","T">>, <<"s","t","r","i","n","g">>>>,
    <<<<"B","Y","T","E","A">>, <<"[","]","b","y","t","e">>>>,
    <<<<"D","A","T","E">>, <<"t","i","m","e",".","T","i","m","e">>>>,
    <<<<"T","I","M","E">>, <<"t","i","m","e",".","T","i","m","e">>>>,
    <<<<"T","I","M","E","S","T","A","M","P">>, <<"t","i","m","e",".","T","i","m","e">>>>,
    <<<<"T","I","M","E","S","T","A","M","P","T","Z">>, <<"t","i","m","e",".","T","i","m","e">>>>,
    <<<<"I","N","T","E","R","V","A","L">>, <<"t","i","m","e",".","D","u","r","a","t","i","o","n">>>>,
    <<<<"B","O","O","L","E","A","N">>, <<"b","o","o","l">>>>,
    <<<<"U","U","I","D">>, <<"s","t","r","i","n","g">>>>,
    <<<<"J","S","O","N">>, <<"j","s","o","n",".","R","a","w","M","e","s","s","a","g","e">>>>,
    <<<<"J","S","O","N","B">>, <<"j","s","o","n",".","R","a","w","M","e","s","s","a","g","e">>>>,
    <<<<"S","E","R","I","A","L">>, <<"i","n","t">>>>,
    <<<<"B","I","G","S","E","R","I","A","L">>, <<"i","n","t","6","4">>>>,
    <<<<"S","M","A","L","L","S","E","R","I","A","L">>, <<"i","n","t","1","6">>>>
>>

\* typeMap.sqlite: the entries in the order of the object literal
typeMap_sqlite(isUnsigned, typeParams) == <<
    <<<<"I","N","T","E","G","E","R">>, IF isUnsigned THEN <<"u","i","n","t","6","4">> ELSE <<"i","n","t","6","4">>>>,
    <<<<"R","E","A","L">>, <<"f","l","o","a","t","6","4">>>>,
    <<<<"T","E","X","T">>, <<"s","t","r","i","n","g">>>>,
    <<<<"B","L","O","B">>, <<"[","]","b","y","t","e">>>>,
    <<<<"N","U","M","E","R","I","C">>, <<"f","l","o","a","t","6","4">>>>,
    <<<<"B","O","O","L","E","A","N">>, <<"b","o","o","l">>>>,
    <<<<"D","A","T","E","T","I","M","E">>, <<"t","i","m","e",".","T","i","m","e">>>>,
    <<<<"D","A","T","E">>, <<"t","i","m","e",".","T","i","m","e">>>>,
    <<<<"V","A","R","C","H","A","R">>, <<"s","t","r","i","n","g">>>>
>>

\* typeMap.oracle: the entries in the order of the object literal
typeMap_oracle(isUnsigned, typeParams) == <<
    <<<<"N","U","M","B","E","R">>, IF typeParams # <<>> /\ includes(typeParams, <<",">>) THEN <<"f","l","o","a","t","6","4">>
           ELSE IF isUnsigned THEN <<"u","i","n","t","6","4">> ELSE <<"i","n","t","6","4">>>>,
    <<<<"I","N","T","E","G","E","R">>, IF isUnsigned THEN <<"u","i","n","t","6","4">> ELSE <<"i","n","t","6","4">>>>,
    <<<<"F","L","O","A","T">>, <<"f","l","o","a","t","6","4">>>>,
    <<<<"B","I","N","A","R","Y","_","F","L","O","A","T">>, <<"f","l","o","a","t","3","2">>>>,
    <<<<"B","I","N","A","R","Y","_","D","O","U","B","L","E">>, <<"f","l","o","a","t","6","4">>>>,
    <<<<"V","A","R","C","H","A","R","2">>, <<"s","t","r","i","n","g">>>>,
    <<<<"N","V","A","R","C","H","A","R","2">>, <<"s","t","r","i","n","g">>>>,
    <<<<"C","H","A","R">>, <<"s","t","r","i","n","g">>>>,
    <<<<"N","C","H","A","R">>, <<"s","t","r","i","n","g">>>>,
    <<<<"C","L","O","B">>, <<"s","t","r","i","n","g">>>>,
    <<<<"N","C","L","O","B">>, <<"s","t","r","i","n","g">>>>,
    <<<<"R","A","W">>, <<"[","]","b","y","t","e">>>>,
    <<<<"B","L","O","B">>, <<"[","]","b","y","t","e">>>>,
    <<<<"D","A","T","E">>, <<"t","i","m","e",".","T","i","m","e">>>>,
    <<<<"T","I","M","E","S","T","A","M","P">>, <<"t","i","m","e",".","T","i","m","e">>>>,
    <<<<"T","I","M","E","S","T","A","M","P"," ","W","I","T","H"," ","T","I","M","E"," ","Z","O","N","E">>, <<"t","i","m","e",".","T","i","m","e">>>>,
    <<<<"T","I","M","E","S","T","A","M","P"," ","W","I","T","H"," ","L","O","C","A","L"," ","T","I","M","E"," ","Z","O","N","E">>, <<"t","i","m","e",".","T","i","m","e">>>>,
    <<<<"I","N","T","E","R","V","A","L"," ","Y","E","A","R"," ","T","O"," ","M","O","N","T","H">>, <<"s","t","r","i","n","g">>>>,
    <<<<"I","N","T","E","R","V","A","L"," ","D","A","Y"," ","T","O"," ","S","E","C","O","N","D">>, <<"s","t","r","i","n","g">>>>
>>
typeMap(dbType, isUnsigned, typeParams) ==
    CASE dbType = "mysql" -> typeMap_mysql(isUnsigned, typeParams)
      [] dbType = "postgres" -> typeMap_postgres(isUnsigned, typeParams)
      [] dbType = "sqlite" -> typeMap_sqlite(isUnsigned, typeParams)
      [] dbType = "oracle" -> typeMap_oracle(isUnsigned, typeParams)

\* the loop over Object.entries(typeMap[dbType]): the first key that
\* baseType contains decides
partialMatch(entries, baseType, isUnsigned) ==
    LET hits == {j \in 1..Len(entries) : includes(baseType, entries[j][1])}
    IN  IF hits = {} THEN <<"i","n","t","e","r","f","a","c","e","{","}">>
        ELSE LET e == entries[CHOOSE a \in hits : \A b \in hits : a <= b]
             IN  IF isUnsigned /\ startsWith(e[1], <<"I","N","T">>)
                 THEN replaceFirst(e[2], <<"i","n","t">>, <<"u","i","n","t">>)
                 ELSE e[2]

getGoType(sqlType, dbType, isUnsigned, typeParams, isEnum) ==
    LET normalizedType == toUpperCase(trim(collapseWs(sqlType)))
        baseType == splitCh(normalizedType, " ")[1]
        entries == typeMap(dbType, isUnsigned, typeParams)
        found == {j \in 1..Len(entries) : entries[j][1] = baseType}
    IN  IF isEnum THEN <<"s","t","r","i","n","g">>
        ELSE IF dbType = "mysql" /\ baseType = <<"T","I","N","Y","I","N","T">> /\ typeParams = <<"1">> THEN <<"b","o","o","l">>
        ELSE IF found = {} THEN partialMatch(entries, baseType, isUnsigned)
        ELSE entries[CHOOSE j \in found : TRUE][2]


-----------------------------------------------------------------------------
(* sqlToGoStruct                                                           *)

\* /CREATE\s+TABLE\s+(?:IF\s+NOT\s+EXISTS\s+)?(?:`|"|')?(\w+)(?:`|"|')?\s*
\*  \(([^;]*(?:\([^)]*\)[^;]*)*)\)/i
createTableRegex ==
    Cat(<<Str(<<"C","R","E","A","T","E">>), Rep(Ws, 1), Str(<<"T","A","B","L","E">>), Rep(Ws, 1),
          Opt(Cat(<<Str(<<"I","F">>), Rep(Ws, 1), Str(<<"N","O","T">>), Rep(Ws, 1),
                    Str(<<"E","X","I","S","T","S">>), Rep(Ws, 1)>>)),
          Opt(Quote), Grp(1, Rep(Wd, 1)), Opt(Quote), Rep(Ws, 0), Lit("("),
          Grp(2, Cat(<<Rep(NotIn({";"}), 0),
                       Star(Cat(<<Lit("("), Rep(NotIn({")"}), 0), Lit(")"),
                                  Rep(NotIn({";"}), 0)>>))>>)),
          Lit(")")>>)

\* /(?:`|"|')?(\w+)(?:`|"|')?\s+
\*  (?:(enum)\s+\(([^)]+)\)|([^\s,]+(?:\s+[^\s,]+)*)\s*(?:\(([^)]+)\))?)
\*  (?:\s+([^,]*?))?(?:\s+default\s+([^\s,]+|'[^']*'|"[^"]*"))?
\*  (?:\s+comment\s+(?:'([^']*)'|"([^"]*)"))?(?:,|$)/gim
columnRegex ==
    Cat(<<Opt(Quote), Grp(1, Rep(Wd, 1)), Opt(Quote), Rep(Ws, 1),
          Alt(<<Cat(<<Grp(2, Str(<<"e","n","u","m">>)), Rep(Ws, 1), Lit("("),
                      Grp(3, Rep(NotIn({")"}), 1)), Lit(")")>>),
                Cat(<<Grp(4, Cat(<<Rep(NotWsComma, 1),
                                   Star(Cat(<<Rep(Ws, 1), Rep(NotWsComma, 1)>>))>>)),
                      Rep(Ws, 0),
                      Opt(Cat(<<Lit("("), Grp(5, Rep(NotIn({")"}), 1)), Lit(")")>>))>>)>>),
          Opt(Cat(<<Rep(Ws, 1), Grp(6, LazyRep(NotIn({","}), 0))>>)),
          Opt(Cat(<<Rep(Ws, 1), Str(<<"d","e","f","a","u","l","t">>), Rep(Ws, 1),
                    Grp(7, Alt(<<Rep(NotWsComma, 1),
                                 Cat(<<Lit("'"), Rep(NotIn({"'"}), 0), Lit("'")>>),
                                 Cat(<<Lit("\""), Rep(NotIn({"\""}), 0), Lit("\"")>>)>>))>>)),
          Opt(Cat(<<Rep(Ws, 1), Str(<<"c","o","m","m","e","n","t">>), Rep(Ws, 1),
                    Alt(<<Cat(<<Lit("'"), Grp(8, Rep(NotIn({"'"}), 0)), Lit("'")>>),
                          Cat(<<Lit("\""), Grp(9, Rep(NotIn({"\""}), 0)), Lit("\"")>>)>>)>>)),
          Alt(<<Lit(","), Eol>>)>>)

\* /^(?:PRIMARY|FOREIGN|UNIQUE|CHECK|INDEX|KEY|CONSTRAINT)\s+/i
constraintRegex ==
    Cat(<<Bol, Alt(<<Str(<<"P","R","I","M","A","R","Y">>), Str(<<"F","O","R","E","I","G","N">>), Str(<<"U","N","I","Q","U","E">>), Str(<<"C","H","E","C","K">>),
                     Str(<<"I","N","D","E","X">>), Str(<<"K","E","Y">>), Str(<<"C","O","N","S","T","R","A","I","N","T">>)>>), Rep(Ws, 1)>>)

\* what one match of columnRegex is read as (lines 395-418 and 436-439)
columnOf(columnsStr, match) ==
    LET isEnum == HasCap(match, 2)
                  /\ toUpperCase(trim(Cap(columnsStr, match, 2))) = <<"E","N","U","M">>
        constraints == toUpperCase(trim(Cap(columnsStr, match, 6)))
    IN  [fieldName |-> Cap(columnsStr, match, 1),
         isEnum |-> isEnum,
         sqlTypeBase |-> IF isEnum THEN <<"E","N","U","M">>
                         ELSE toUpperCase(trim(Cap(columnsStr, match, 4))),
         sqlTypeParams |-> IF isEnum THEN trim(Cap(columnsStr, match, 3))
                           ELSE trim(Cap(columnsStr, match, 5)),
         constraints |-> constraints,
         defaultValue |-> Cap(columnsStr, match, 7),
         comment |-> IF Cap(columnsStr, match, 8) # <<>> THEN Cap(columnsStr, match, 8)
                     ELSE Cap(columnsStr, match, 9),
         isNullable |-> ~includes(constraints, <<"N","O","T"," ","N","U","L","L">>)
                        /\ ~includes(constraints, <<"P","R","I","M","A","R","Y"," ","K","E","Y">>),
         isUnsigned |-> includes(constraints, <<"U","N","S","I","G","N","E","D">>)]

\* a struct field whose pointer follows the usePointer option alone
fieldWithFlagOnly(opts, name, isNullable, goType, tags) ==
    LET fieldType == IF opts.usePointer THEN <<"*">> \o goType ELSE goType
    IN  [name |-> name, type |-> fieldType, goType |-> goType, tags |-> tags,
         line |-> <<"\t">> \o name \o <<" ">> \o fieldType \o <<" ">> \o tags]

\* the struct field of a column, given its name, Go type and tags
fieldWith(opts, name, isNullable, goType, tags) ==
    LET usePointer == opts.usePointer \/ (isNullable /\ ~startsWith(goType, <<"*">>))
        fieldType == IF usePointer THEN <<"*">> \o goType ELSE goType
    IN  [name |-> name, type |-> fieldType, goType |-> goType, tags |-> tags,
         line |-> <<"\t">> \o name \o <<" ">> \o fieldType \o <<" ">> \o tags]

\* the struct field of one column (lines 441-465)
fieldOf(col, opts) ==
    fieldWith(opts, toPascalCase(col.fieldName), col.isNullable,
              getGoType(col.sqlTypeBase, opts.dbType, col.isUnsigned,
                        col.sqlTypeParams, col.isEnum),
              generateTags(col.fieldName, opts, col.comment, col.defaultValue))

\* imports.add(imp) on a Set kept in insertion order
setAdd(set, imp) == IF \E j \in 1..Len(set) : set[j] = imp THEN set ELSE Append(set, imp)

importsAfter(imports, goType) ==
    LET a == IF includes(goType, <<"t","i","m","e",".","T","i","m","e">>) THEN setAdd(imports, <<"t","i","m","e">>) ELSE imports
    IN  IF includes(goType, <<"j","s","o","n",".","R","a","w","M","e","s","s","a","g","e">>) THEN setAdd(a, <<"e","n","c","o","d","i","n","g","/","j","s","o","n">>) ELSE a

RECURSIVE columnLoop(_, _, _, _, _)

\* fields.push(...) and the imports of the column, then the next match
columnPush(columnsStr, opts, match, fields, imports, f) ==
    columnLoop(columnsStr, opts, match.end - 1, Append(fields, f),
               importsAfter(imports, f.goType))

\* the body of the while loop for one match of columnRegex
columnStep(columnsStr, opts, match, fields, imports) ==
    IF ~match.ok THEN [threw |-> FALSE, fields |-> fields, imports |-> imports,
                       lastIndex |-> 0]
    ELSE IF test(constraintRegex, 0, FlagI, Cap0(columnsStr, match))
    THEN columnLoop(columnsStr, opts, match.end - 1, fields, imports)
    ELSE IF opts = Undefined
    THEN [threw |-> TRUE, fields |-> fields, imports |-> imports,
          lastIndex |-> match.end - 1]
    ELSE columnPush(columnsStr, opts, match, fields, imports,
                    fieldOf(columnOf(columnsStr, match), opts))

\* while ((match = columnRegex.exec(columnsStr)) !== null) { ... } from the
\* given lastIndex; reading options.dbType of an absent options object throws
columnLoop(columnsStr, opts, lastIndex, fields, imports) ==
    columnStep(columnsStr, opts, exec(columnRegex, 9, FlagIM, columnsStr, lastIndex),
               fields, imports)

\* the lastIndex of one regular expression object shared by all calls
columnRegexLastIndexKept(left) == left

\* the lastIndex of the regular expression object the loop runs on: the
\* literal at line 376 makes a new object, with lastIndex 0, in every call
columnRegexLastIndex(left) == 0

importBlock(imports) ==
    IF imports = <<>> THEN <<>>
    ELSE <<"i","m","p","o","r","t"," ","(","\n">>
         \o Concat([j \in 1..Len(imports) |-> <<"\t","\"">> \o imports[j] \o <<"\"","\n">>])
         \o <<")","\n","\n">>

\* the text of the struct, after the loop over the columns
sqlOutput(structName, loop) ==
    IF loop.threw
    THEN [res |-> Threw("TypeError: Cannot read properties of undefined"),
          lastIndex |-> loop.lastIndex]
    ELSE [res |-> Returned(importBlock(loop.imports)
                           \o <<"t","y","p","e"," ">> \o structName \o <<" ","s","t","r","u","c","t"," ","{","\n">>
                           \o join([j \in 1..Len(loop.fields) |-> loop.fields[j].line], <<"\n">>)
                           \o <<"\n","}">>,
                           loop.fields, loop.imports),
          lastIndex |-> loop.lastIndex]

\* sqlToGoStruct after sql.match(...) gave createTableMatch
sqlMatched(sql, opts, left, createTableMatch) ==
    IF ~createTableMatch.ok
    THEN [res |-> Threw("Invalid SQL CREATE TABLE statement"), lastIndex |-> left]
    ELSE sqlOutput(toPascalCase(Cap(sql, createTableMatch, 1)),
                   columnLoop(Cap(sql, createTableMatch, 2), opts,
                              columnRegexLastIndex(left), <<>>, <<>>))

\* left: the lastIndex the regular expression object of the previous call
\* ended with.  The result is the outcome and the lastIndex this call's
\* object ends with.
sqlToGoStruct(sql, opts, left) ==
    sqlMatched(sql, opts, left, exec(createTableRegex, 2, FlagI, sql, 0))


-----------------------------------------------------------------------------
(* Values.  A value is a scalar or a reference to a node of a heap; a heap *)
(* is a sequence of nodes, a node an object or an array with its own       *)
(* properties in insertion order.  A reference is the node's identity.     *)

Null == [t |-> "null"]
Bool(b) == [t |-> "boolean", b |-> b]
StrV(cs) == [t |-> "string", s |-> cs]
\* a number written as sign, integer digits and fraction digits
Num(neg, int, frac) == [t |-> "number", neg |-> neg, int |-> int, frac |-> frac]
RefV(id) == [t |-> "ref", id |-> id]
ObjNode(props) == [kind |-> "object", props |-> props]
ArrNode(elems) == [kind |-> "array", props |-> elems]

\* digit strings without leading zeros, compared as numbers
DigitsGT(a, b) ==
    \/ Len(a) > Len(b)
    \/ /\ Len(a) = Len(b)
       /\ \E j \in 1..Len(a) :
            /\ \A m \in 1..(j - 1) : a[m] = b[m]
            /\ \E da, db \in 0..9 :
                 /\ a[j] = <<"0","1","2","3","4","5","6","7","8","9">>[da + 1]
                 /\ b[j] = <<"0","1","2","3","4","5","6","7","8","9">>[db + 1]
                 /\ da > db

\* Number.isInteger(value), for a number of at most 15 significant digits
isInteger(v) == \A j \in 1..Len(v.frac) : v.frac[j] = "0"
\* value >= 2147483647
atOrAboveInt32(v) == ~v.neg /\ (v.int = <<"2","1","4","7","4","8","3","6","4","7">> \/ DigitsGT(v.int, <<"2","1","4","7","4","8","3","6","4","7">>))

\* value > 2147483647 and value < -2147483648, for an integral value
aboveInt32(v) == ~v.neg /\ DigitsGT(v.int, <<"2","1","4","7","4","8","3","6","4","7">>)
belowInt32(v) == v.neg /\ DigitsGT(v.int, <<"2","1","4","7","4","8","3","6","4","8">>)

\* an array index as a property key: "0", "1", ...
indexKey(n) == <<<<"0","1","2","3","4","5","6","7","8","9">>[n + 1]>>

\* a property key that is an array index ("0", or digits without a leading
\* zero): such keys are enumerated first, in ascending numeric order
isIndexKey(k) ==
    /\ k # <<>>
    /\ Len(k) <= 9
    /\ \A j \in 1..Len(k) : k[j] \in Digits
    /\ (Len(k) > 1 => k[1] # "0")

\* obj[key] = value on an ordinary object: a new key is added last, an
\* existing key keeps its place
setProp(props, key, value) ==
    IF \E j \in 1..Len(props) : props[j][1] = key
    THEN [j \in 1..Len(props) |-> IF props[j][1] = key THEN <<key, value>> ELSE props[j]]
    ELSE Append(props, <<key, value>>)

\* Object.entries(node): the index keys in ascending order, then the other
\* keys in insertion order; the elements of an array in order
ObjectEntries(node) ==
    IF node.kind = "array"
    THEN [j \in 1..Len(node.props) |-> <<indexKey(j - 1), node.props[j]>>]
    ELSE
      LET props == node.props
          idx == {j \in 1..Len(props) : isIndexKey(props[j][1])}
          \* the number of index keys smaller than the one at j
          before(j) == Cardinality({m \in idx : DigitsGT(props[j][1], props[m][1])})
          others == SelectSeq(props, LAMBDA p : ~isIndexKey(p[1]))
      IN  [r \in 1..Cardinality(idx) |-> props[CHOOSE j \in idx : before(j) = r - 1]]
          \o others

-----------------------------------------------------------------------------
(* JSON.parse, for texts without string escapes and without exponents      *)

ParseFail == [ok |-> FALSE]
jsonWs == {" ", "\n", "\t", "\r"}
skipWs(s, i) == i + MaxRun(In(jsonWs)[1], s, i)

\* the token with integer digits at a .. a+n-1 and m fraction digits
numberEnd(s, neg, a, n, m) ==
    IF m = 0 THEN ParseFail
    ELSE [ok |-> TRUE,
          v |-> Num(neg, Sub(s, a, a + n), Sub(s, a + n + 1, a + n + 1 + m)),
          next |-> a + n + 1 + m]

\* the token after its n integer digits
numberFrac(s, neg, a, n) ==
    IF n = 0 THEN ParseFail
    ELSE IF a + n <= Len(s) /\ s[a + n] = "."
    THEN numberEnd(s, neg, a, n, MaxRun(In(Digits)[1], s, a + n + 1))
    ELSE [ok |-> TRUE, v |-> Num(neg, Sub(s, a, a + n), <<>>), next |-> a + n]

\* the token from its first digit at a: a leading zero ends the integer part
numberInt(s, neg, a) ==
    numberFrac(s, neg, a,
               IF a <= Len(s) /\ s[a] = "0" THEN 1 ELSE MaxRun(In(Digits)[1], s, a))

\* a number token at i: -? (0 | [1-9][0-9]*) (\.[0-9]+)?
numberAt(s, i) ==
    numberInt(s, i <= Len(s) /\ s[i] = "-", IF i <= Len(s) /\ s[i] = "-" THEN i + 1 ELSE i)

\* the string token at i with n characters between the quotes
stringEnd(s, i, n) ==
    IF i + 1 + n <= Len(s) /\ s[i + 1 + n] = "\""
    THEN [ok |-> TRUE, v |-> StrV(Sub(s, i + 1, i + 1 + n)), next |-> i + n + 2]
    ELSE ParseFail

\* a string token at i (s[i] is the opening quote)
stringAt(s, i) == stringEnd(s, i, MaxRun(NotIn({"\"", "\\", "\n"})[1], s, i + 1))

literalAt(s, i, word, v) ==
    IF Sub(s, i, i + Len(word)) = word /\ i + Len(word) - 1 <= Len(s)
    THEN [ok |-> TRUE, v |-> v, next |-> i + Len(word)]
    ELSE ParseFail

RECURSIVE parseValue(_, _, _)
RECURSIVE parseMembers(_, _, _, _)
RECURSIVE parseElements(_, _, _, _)

\* a scalar token r as a parsed value: the heap is as it was
withHeap(r, hp) ==
    IF r.ok THEN [ok |-> TRUE, v |-> r.v, next |-> r.next, heap |-> hp] ELSE ParseFail

\* the node made at the closing bracket at e
closeNode(node, hp, e) ==
    [ok |-> TRUE, v |-> RefV(Len(hp) + 1), next |-> e + 1, heap |-> Append(hp, node)]

\* after a member's value: "," and the next member, or "}"
memberEnd(s, e, hp, props) ==
    IF e > Len(s) THEN ParseFail
    ELSE IF s[e] = "," THEN parseMembers(s, e + 1, hp, props)
    ELSE IF s[e] = "}" THEN closeNode(ObjNode(props), hp, e)
    ELSE ParseFail

memberParsed(s, key, val, props) ==
    IF ~val.ok THEN ParseFail
    ELSE memberEnd(s, skipWs(s, val.next), val.heap, setProp(props, key, val.v))

\* after a member's key: ":" at c and the value
memberColon(s, key, c, hp, props) ==
    IF ~key.ok \/ c > Len(s) THEN ParseFail
    ELSE IF s[c] # ":" THEN ParseFail
    ELSE memberParsed(s, key.v.s, parseValue(s, c + 1, hp), props)

memberString(s, key, hp, props) ==
    memberColon(s, key, IF key.ok THEN skipWs(s, key.next) ELSE 0, hp, props)

\* a member from its first character at i
memberKey(s, i, hp, props) ==
    IF i <= Len(s) /\ s[i] = "\"" THEN memberString(s, stringAt(s, i), hp, props)
    ELSE ParseFail

\* after an element's value: "," and the next element, or "]"
elementEnd(s, e, hp, elems) ==
    IF e > Len(s) THEN ParseFail
    ELSE IF s[e] = "," THEN parseElements(s, e + 1, hp, elems)
    ELSE IF s[e] = "]" THEN closeNode(ArrNode(elems), hp, e)
    ELSE ParseFail

elementParsed(s, elems, val) ==
    IF ~val.ok THEN ParseFail
    ELSE elementEnd(s, skipWs(s, val.next), val.heap, Append(elems, val.v))

\* after "{" or "[" at i: j is the position of the next character, close
\* the bracket that would end the empty node
opened(s, i, j, hp, close) ==
    IF j <= Len(s) /\ s[j] = close
    THEN closeNode(IF close = "}" THEN ObjNode(<<>>) ELSE ArrNode(<<>>), hp, j)
    ELSE IF close = "}" THEN parseMembers(s, i + 1, hp, <<>>)
    ELSE parseElements(s, i + 1, hp, <<>>)

\* a value from its first character at i
valueAt(s, i, hp) ==
    IF i > Len(s) THEN ParseFail
    ELSE IF s[i] = "{" THEN opened(s, i, skipWs(s, i + 1), hp, "}")
    ELSE IF s[i] = "[" THEN opened(s, i, skipWs(s, i + 1), hp, "]")
    ELSE IF s[i] = "\"" THEN withHeap(stringAt(s, i), hp)
    ELSE IF s[i] = "t" THEN withHeap(literalAt(s, i, <<"t","r","u","e">>, Bool(TRUE)), hp)
    ELSE IF s[i] = "f" THEN withHeap(literalAt(s, i, <<"f","a","l","s","e">>, Bool(FALSE)), hp)
    ELSE IF s[i] = "n" THEN withHeap(literalAt(s, i, <<"n","u","l","l">>, Null), hp)
    ELSE withHeap(numberAt(s, i), hp)

\* the members of an object from position i0 (after "{" or ",")
parseMembers(s, i0, hp, props) == memberKey(s, skipWs(s, i0), hp, props)

parseElements(s, i0, hp, elems) == elementParsed(s, elems, parseValue(s, i0, hp))

parseValue(s, i0, hp) == valueAt(s, skipWs(s, i0), hp)

\* the value r, if nothing but white space follows it
parsedAll(s, r) ==
    IF r.ok /\ skipWs(s, r.next) = Len(s) + 1
    THEN [ok |-> TRUE, v |-> r.v, heap |-> r.heap]
    ELSE ParseFail

\* JSON.parse(input): the value and the heap of its objects and arrays, or
\* a SyntaxError
JSONparse(s) == parsedAll(s, parseValue(s, 1, <<>>))


-----------------------------------------------------------------------------
(* inferGoType, formatGoFieldType, jsonToGo: the walk over a value of a    *)
(* heap.  A Set of visited objects is a set of node identities.  The       *)
(* depth is the number of nested calls: a chain of calls longer than       *)
(* StackLimit visits some array twice on one chain, so it never returns,   *)
(* and the engine ends it with a RangeError.                               *)

StackLimit(hp) == 2 * Len(hp) + 2

GoType(type, isPointer, isArray, seen) ==
    [type |-> type, isPointer |-> isPointer, isArray |-> isArray,
     seen |-> seen, threw |-> FALSE]
Overflow == [threw |-> TRUE]

ArrayIsArray(hp, value) == value.t = "ref" /\ hp[value.id].kind = "array"

RECURSIVE inferGoType(_, _, _, _)
RECURSIVE mapInferGoType(_, _, _, _, _, _)

\* value.map(item => inferGoType(item, seen)): the elements in order, all
\* sharing the one set seen
mapInferGoType(hp, elems, j, seen, depth, acc) ==
    IF j > Len(elems) THEN [threw |-> FALSE, types |-> acc, seen |-> seen]
    ELSE LET t == inferGoType(hp, elems[j], seen, depth + 1)
         IN  IF t.threw THEN Overflow
             ELSE mapInferGoType(hp, elems, j + 1, t.seen, depth, Append(acc, t))

inferGoType(hp, value, seen, depth) ==
    IF depth > StackLimit(hp) THEN Overflow
    ELSE IF value.t \in {"null", "undefined"} THEN GoType(<<"i","n","t","e","r","f","a","c","e","{","}">>, TRUE, FALSE, seen)
    ELSE IF ArrayIsArray(hp, value)
    THEN LET elems == hp[value.id].props
         IN  IF Len(elems) = 0 THEN GoType(<<"i","n","t","e","r","f","a","c","e","{","}">>, FALSE, TRUE, seen)
             ELSE LET m == mapInferGoType(hp, elems, 1, seen, depth, <<>>)
                  IN  IF m.threw THEN Overflow
                      ELSE LET elementTypes == m.types
                               isSameType ==
                                   \A j \in 1..Len(elementTypes) :
                                      /\ elementTypes[j].type = elementTypes[1].type
                                      /\ elementTypes[j].isPointer = elementTypes[1].isPointer
                           IN  GoType(IF isSameType THEN elementTypes[1].type ELSE <<"i","n","t","e","r","f","a","c","e","{","}">>,
                                      IF isSameType THEN elementTypes[1].isPointer ELSE FALSE,
                                      TRUE, m.seen)
    ELSE IF value.t = "string" THEN GoType(<<"s","t","r","i","n","g">>, FALSE, FALSE, seen)
    ELSE IF value.t = "number"
    THEN IF isInteger(value)
         THEN IF aboveInt32(value) \/ belowInt32(value)
              THEN GoType(<<"i","n","t","6","4">>, FALSE, FALSE, seen)
              ELSE GoType(<<"i","n","t">>, FALSE, FALSE, seen)
         ELSE GoType(<<"f","l","o","a","t","6","4">>, FALSE, FALSE, seen)
    ELSE IF value.t = "boolean" THEN GoType(<<"b","o","o","l">>, FALSE, FALSE, seen)
    ELSE IF value.t = "ref"
    THEN IF value.id \in seen THEN GoType(<<"i","n","t","e","r","f","a","c","e","{","}">>, TRUE, FALSE, seen)
         ELSE GoType(<<"s","t","r","u","c","t">>, FALSE, FALSE, seen \cup {value.id})
    ELSE GoType(<<"i","n","t","e","r","f","a","c","e","{","}">>, FALSE, FALSE, seen)

formatGoFieldType(type) ==
    (IF type.isArray THEN <<"[","]">> ELSE <<>>)
    \o (IF type.isPointer THEN <<"*">> ELSE <<>>)
    \o type.type

\* one field of the struct of jsonToGo: its line, the nested struct text it
\* pushes, the kind it was given
jsonField(key, fieldName, goType, typeName, nested) ==
    [key |-> key, name |-> fieldName, type |-> typeName,
     isPointer |-> goType.isPointer, isArray |-> goType.isArray,
     nested |-> nested,
     line |-> <<"\t">> \o fieldName \o <<" ">>
              \o formatGoFieldType([goType EXCEPT !.type = typeName])
              \o <<" ",Bq,"j","s","o","n",":","\"">> \o key \o <<"\""," ","y","a","m","l",":","\"">> \o key \o <<"\"",Bq,"\n">>]

RECURSIVE jsonToGo(_, _, _, _, _)

\* the field of an entry whose nested struct text is sub
jsonNested(key, goType, nestedStructName, sub) ==
    IF sub.threw THEN Overflow
    ELSE [threw |-> FALSE,
          field |-> jsonField(key, capitalizeFirst(key), goType, nestedStructName,
                              <<sub.text>>)]

\* value[0], or the value itself when it is no array: what jsonToGo is
\* called on for a field of type "struct"
nestedTarget(hp, value) ==
    IF ~ArrayIsArray(hp, value) THEN value
    ELSE IF Len(hp[value.id].props) > 0 THEN hp[value.id].props[1]
    ELSE [t |-> "undefined"]

\* the body of the for loop after inferGoType gave goType
jsonTyped(hp, key, value, structName, seen, depth, goType) ==
    IF goType.threw THEN Overflow
    ELSE IF goType.type = <<"s","t","r","u","c","t">>
            /\ (ArrayIsArray(hp, value) => nestedTarget(hp, value).t = "ref")
    THEN jsonNested(key, goType, structName \o capitalizeFirst(key),
                    jsonToGo(hp, nestedTarget(hp, value),
                             structName \o capitalizeFirst(key), seen, depth + 1))
    ELSE [threw |-> FALSE,
          field |-> jsonField(key, capitalizeFirst(key), goType, goType.type, <<>>)]

\* the body of the for loop of jsonToGo for one entry
jsonToGoEntry(hp, entry0, structName, seen, depth) ==
    jsonTyped(hp, entry0[1], entry0[2], structName, seen, depth,
              inferGoType(hp, entry0[2], seen, depth + 1))

\* the struct built from the outcomes rs of the entries
jsonStruct(structName, rs) ==
    IF \E j \in 1..Len(rs) : rs[j].threw THEN Overflow
    ELSE [threw |-> FALSE,
          text |-> Concat([j \in 1..Len(rs) |-> Concat(rs[j].field.nested)])
                   \o <<"t","y","p","e"," ">> \o structName \o <<" ","s","t","r","u","c","t"," ","{","\n">>
                   \o Concat([j \in 1..Len(rs) |-> rs[j].field.line])
                   \o <<"}","\n","\n">>,
          fields |-> [j \in 1..Len(rs) |-> rs[j].field]]

\* the for loop of jsonToGo over the entries of obj
jsonEntries(hp, entries, structName, seen, depth) ==
    jsonStruct(structName,
               [j \in 1..Len(entries) |->
                  jsonToGoEntry(hp, entries[j], structName, seen, depth)])

\* jsonToGo(obj, structName, seen): the text, and the fields of this struct
jsonToGo(hp, obj, structName, seen, depth) ==
    IF depth > StackLimit(hp) THEN Overflow
    ELSE IF obj.t # "ref" THEN [threw |-> FALSE, text |-> <<>>, fields |-> <<>>]
    ELSE IF obj.id \in seen THEN [threw |-> FALSE, text |-> <<>>, fields |-> <<>>]
    ELSE jsonEntries(hp, ObjectEntries(hp[obj.id]), structName, seen \cup {obj.id}, depth)


-----------------------------------------------------------------------------
(* protoToGo, xmlToGo, csvToGo                                              *)

\* s.split(/\r?\n/)
splitLines(s) ==
    LET pieces == splitCh(s, "\n")
    IN  [j \in 1..Len(pieces) |->
           IF j < Len(pieces) /\ endsWith(pieces[j], <<"\r">>)
           THEN Sub(pieces[j], 1, Len(pieces[j])) ELSE pieces[j]]

protoTypeToGo(type) ==
    LET protoTypeMap == <<
            <<<<"d","o","u","b","l","e">>, <<"f","l","o","a","t","6","4">>>>, <<<<"f","l","o","a","t">>, <<"f","l","o","a","t","3","2">>>>, <<<<"i","n","t","3","2">>, <<"i","n","t","3","2">>>>,
            <<<<"i","n","t","6","4">>, <<"i","n","t","6","4">>>>, <<<<"u","i","n","t","3","2">>, <<"u","i","n","t","3","2">>>>, <<<<"u","i","n","t","6","4">>, <<"u","i","n","t","6","4">>>>,
            <<<<"s","i","n","t","3","2">>, <<"i","n","t","3","2">>>>, <<<<"s","i","n","t","6","4">>, <<"i","n","t","6","4">>>>, <<<<"f","i","x","e","d","3","2">>, <<"u","i","n","t","3","2">>>>,
            <<<<"f","i","x","e","d","6","4">>, <<"u","i","n","t","6","4">>>>, <<<<"s","f","i","x","e","d","3","2">>, <<"i","n","t","3","2">>>>, <<<<"s","f","i","x","e","d","6","4">>, <<"i","n","t","6","4">>>>,
            <<<<"b","o","o","l">>, <<"b","o","o","l">>>>, <<<<"s","t","r","i","n","g">>, <<"s","t","r","i","n","g">>>>, <<<<"b","y","t","e","s">>, <<"[","]","b","y","t","e">>>>,
            <<<<"T","i","m","e","s","t","a","m","p">>, <<"t","i","m","e",".","T","i","m","e">>>> >>
        hit == SelectSeq(protoTypeMap, LAMBDA e : e[1] = type)
    IN  IF hit = <<>> THEN type ELSE hit[1][2]

\* /message\s+(\w+)/
messageRegex == Cat(<<Str(<<"m","e","s","s","a","g","e">>), Rep(Ws, 1), Grp(1, Rep(Wd, 1))>>)
\* /\s*(repeated)?\s*(\w+)\s+(\w+)\s*=\s*\d+;/
protoFieldRegex ==
    Cat(<<Rep(Ws, 0), Opt(Grp(1, Str(<<"r","e","p","e","a","t","e","d">>))), Rep(Ws, 0), Grp(2, Rep(Wd, 1)),
          Rep(Ws, 1), Grp(3, Rep(Wd, 1)), Rep(Ws, 0), Lit("="), Rep(Ws, 0),
          Rep(In(Digits), 1), Lit(";")>>)

RECURSIVE protoLoop(_, _, _, _, _, _)

\* a line with 'message': m is line.match(/message\s+(\w+)/)
protoMessage(lines, j, output, currentMessage, imports, fields, m) ==
    IF m.ok
    THEN protoLoop(lines, j + 1, output \o <<"t","y","p","e"," ">> \o Cap(lines[j], m, 1) \o <<" ","s","t","r","u","c","t"," ","{","\n">>,
                   Cap(lines[j], m, 1), imports, fields)
    ELSE protoLoop(lines, j + 1, output, currentMessage, imports, fields)

\* the field line of a matched field
protoPush(lines, j, output, currentMessage, imports, fields, repeated, name, goType) ==
    LET fieldName == capitalizeFirst(name)
        fieldType == IF repeated THEN <<"[","]">> \o goType ELSE goType
    IN  protoLoop(lines, j + 1,
                  output \o <<"\t">> \o fieldName \o <<" ">> \o fieldType
                         \o <<" ",Bq,"j","s","o","n",":","\"">> \o name \o <<"\"",Bq,"\n">>,
                  currentMessage,
                  IF goType = <<"t","i","m","e",".","T","i","m","e">> THEN setAdd(imports, <<"t","i","m","e">>) ELSE imports,
                  Append(fields, [message |-> currentMessage, name |-> fieldName,
                                  type |-> fieldType, key |-> name]))

\* a line inside a message: fieldMatch is the match of the field pattern
protoField(lines, j, output, currentMessage, imports, fields, fieldMatch) ==
    IF fieldMatch.ok
    THEN protoPush(lines, j, output, currentMessage, imports, fields,
                   HasCap(fieldMatch, 1), Cap(lines[j], fieldMatch, 3),
                   protoTypeToGo(Cap(lines[j], fieldMatch, 2)))
    ELSE protoLoop(lines, j + 1, output, currentMessage, imports, fields)

\* the for loop of protoToGo from line j on
protoLoop(lines, j, output, currentMessage, imports, fields) ==
    IF j > Len(lines)
    THEN [output |-> output, currentMessage |-> currentMessage,
          imports |-> imports, fields |-> fields]
    ELSE IF trim(lines[j]) = <<>> \/ includes(lines[j], <<"s","y","n","t","a","x">>)
            \/ includes(lines[j], <<"p","a","c","k","a","g","e">>)
    THEN protoLoop(lines, j + 1, output, currentMessage, imports, fields)
    ELSE IF includes(lines[j], <<"m","e","s","s","a","g","e">>)
    THEN protoMessage(lines, j, IF currentMessage # <<>> THEN output \o <<"}","\n","\n">> ELSE output,
                      currentMessage, imports, fields,
                      exec(messageRegex, 1, NoFlags, lines[j], 0))
    ELSE IF currentMessage # <<>>
    THEN protoField(lines, j, output, currentMessage, imports, fields,
                    exec(protoFieldRegex, 3, NoFlags, lines[j], 0))
    ELSE protoLoop(lines, j + 1, output, currentMessage, imports, fields)

\* the end of protoToGo, r being the state after the loop
protoOutput(r) ==
    LET output == IF r.currentMessage # <<>> THEN r.output \o <<"}","\n">> ELSE r.output
    IN  Returned(IF Len(r.imports) > 0
                 THEN <<"i","m","p","o","r","t"," ","(","\n","\t","\"">> \o join(r.imports, <<"\"","\n","\t","\"">>) \o <<"\"","\n",")","\n","\n">> \o output
                 ELSE output,
                 r.fields, r.imports)

protoToGo(proto) == protoOutput(protoLoop(splitLines(proto), 1, <<>>, <<>>, <<>>, <<>>))

\* /^\d+$/, /^\d*\.\d+$/, /^\d{4}-\d{2}-\d{2}T\d{2}:\d{2}:\d{2}/
intRegex == Cat(<<Bol, Rep(In(Digits), 1), Eol>>)
floatRegex == Cat(<<Bol, Rep(In(Digits), 0), Lit("."), Rep(In(Digits), 1), Eol>>)
timeRegex ==
    LET d == In(Digits)
    IN  Cat(<<Bol, d, d, d, d, Lit("-"), d, d, Lit("-"), d, d, Lit("T"),
              d, d, Lit(":"), d, d, Lit(":"), d, d>>)

\* firstRow[i] past the end of the row: undefined, which is no string
NoValue == <<"UNDEFINED">>

\* a missing value (undefined) is read by the regular expressions as the
\* text "undefined"
inferTypeFromValue(value) ==
    LET text == IF value = NoValue THEN <<"u","n","d","e","f","i","n","e","d">> ELSE value
    IN  IF value = <<"t","r","u","e">> \/ value = <<"f","a","l","s","e">> THEN <<"b","o","o","l">>
        ELSE IF test(intRegex, 0, NoFlags, text) THEN <<"i","n","t">>
        ELSE IF test(floatRegex, 0, NoFlags, text) THEN <<"f","l","o","a","t","6","4">>
        ELSE IF test(timeRegex, 0, NoFlags, text) THEN <<"t","i","m","e",".","T","i","m","e">>
        ELSE <<"s","t","r","i","n","g">>

\* /<\?xml[^>]+\?>/, /<([^\s>]+)/, /<([^>/]+)>([^<]*)<\/\1>/g
xmlDeclRegex == Cat(<<Str(<<"<","?","x","m","l">>), Rep(NotIn({">"}), 1), Str(<<"?",">">>)>>)
rootRegex == Cat(<<Lit("<"), Grp(1, Rep(NotIn(WsCh \cup {">"}), 1))>>)
fieldRegex ==
    Cat(<<Lit("<"), Grp(1, Rep(NotIn({">", "/"}), 1)), Lit(">"),
          Grp(2, Rep(NotIn({"<"}), 0)), Str(<<"<","/">>), Ref(1), Lit(">")>>)

\* s.replace(regex, ''): the first match m of the regex in s removed
removeFirst(s, m) ==
    IF m.ok THEN Sub(s, 1, m.index) \o sliceFrom(s, m.end - 1) ELSE s

\* a Map whose entry takes the type of the latest occurrence
mapSetLatest(fields, fieldName, value) ==
    IF \E j \in 1..Len(fields) : fields[j].key = fieldName
    THEN [j \in 1..Len(fields) |->
            IF fields[j].key = fieldName
            THEN [fields[j] EXCEPT !.isArray = TRUE, !.type = inferTypeFromValue(value)]
            ELSE fields[j]]
    ELSE Append(fields, [key |-> fieldName, type |-> inferTypeFromValue(value),
                         isArray |-> FALSE])

\* fields.get / fields.set on the Map of xmlToGo: a sequence in insertion order
mapSet(fields, fieldName, value) ==
    IF \E j \in 1..Len(fields) : fields[j].key = fieldName
    THEN [j \in 1..Len(fields) |->
            IF fields[j].key = fieldName THEN [fields[j] EXCEPT !.isArray = TRUE]
            ELSE fields[j]]
    ELSE Append(fields, [key |-> fieldName, type |-> inferTypeFromValue(value),
                         isArray |-> FALSE])

RECURSIVE xmlFieldLoop(_, _, _)

\* the body of the while loop for one match of fieldRegex
xmlFieldStep(xml, match, fields) ==
    IF ~match.ok THEN fields
    ELSE xmlFieldLoop(xml, match.end - 1,
                      mapSet(fields, Cap(xml, match, 1), Cap(xml, match, 2)))

\* the while loop of xmlToGo, fieldRegex.lastIndex being lastIndex
xmlFieldLoop(xml, lastIndex, fields) ==
    xmlFieldStep(xml, exec(fieldRegex, 2, NoFlags, xml, lastIndex), fields)

\* the text of the struct for the fields of the Map
xmlOutput(structName, out) ==
    LET line(f) == <<"\t">> \o f.name \o <<" ">> \o f.goFieldType \o <<" ",Bq,"x","m","l",":","\"">> \o f.key
                   \o <<"\""," ","j","s","o","n",":","\"">> \o f.key \o <<"\"",Bq,"\n">>
    IN  Returned(<<"t","y","p","e"," ">> \o structName \o <<" ","s","t","r","u","c","t"," ","{","\n">>
                 \o Concat([j \in 1..Len(out) |-> line(out[j])]) \o <<"}","\n">>,
                 out, <<>>)

\* the fields of the Map as struct fields
xmlFields(fields) ==
    [j \in 1..Len(fields) |->
       [key |-> fields[j].key, name |-> toPascalCase(fields[j].key),
        type |-> fields[j].type, isArray |-> fields[j].isArray,
        goFieldType |-> IF fields[j].isArray THEN <<"[","]">> \o fields[j].type
                        ELSE fields[j].type]]

\* xmlToGo after xml.match(/<([^\s>]+)/) gave rootMatch
xmlRooted(xml, rootMatch) ==
    IF ~rootMatch.ok THEN Threw("XML parse error: no root element found")
    ELSE xmlOutput(toPascalCase(Cap(xml, rootMatch, 1)),
                   xmlFields(xmlFieldLoop(xml, 0, <<>>)))

\* xmlToGo after the declaration is removed and the text trimmed
xmlTrimmed(xml) == xmlRooted(xml, exec(rootRegex, 1, NoFlags, xml, 0))

xmlToGo(xml0) ==
    xmlTrimmed(trim(removeFirst(xml0, exec(xmlDeclRegex, 0, NoFlags, xml0, 0))))

\* the lines of the text, blank ones kept
csvLinesUnfiltered(csv) == splitLines(csv)

\* csv.split(/\r?\n/).filter(line => line.trim())
csvLines(csv) == SelectSeq(splitLines(csv), LAMBDA line : trim(line) # <<>>)

trimAll(ss) == [j \in 1..Len(ss) |-> trim(ss[j])]

\* the text of the struct for the fields of the header
csvOutput(fields) ==
    LET line(f) == <<"\t">> \o f.name \o <<" ">> \o f.type \o <<" ",Bq,"j","s","o","n",":","\"">> \o f.key \o <<"\"",Bq,"\n">>
    IN  Returned(<<"t","y","p","e"," ","A","u","t","o","G","e","n"," ","s","t","r","u","c","t"," ","{","\n">>
                 \o Concat([i \in 1..Len(fields) |-> line(fields[i])]) \o <<"}","\n">>,
                 fields, <<>>)

\* s.split(',').map(v => v.trim())
splitTrim(s) == trimAll(splitCh(s, ","))

\* the for loop of csvToGo: one field per header
csvFields(headers, firstRow) ==
    [i \in 1..Len(headers) |->
       [key |-> headers[i], name |-> capitalizeFirst(headers[i]),
        type |-> inferTypeFromValue(IF i <= Len(firstRow) THEN firstRow[i] ELSE NoValue)]]

\* csvToGo on the non-blank lines
csvOfLines(lines) ==
    IF Len(lines) < 2 THEN Threw("CSV needs a header line and one line of data")
    ELSE csvOutput(csvFields(splitTrim(lines[1]), splitTrim(lines[2])))

csvToGo(csv) == csvOfLines(csvLines(csv))


-----------------------------------------------------------------------------
(* convertToGo and validateFormat                                           *)

\* YAML.parse(input), for a document in flow style with quoted keys, none
\* twice in one mapping: such a document is read as the same JSON text is
YAMLparse(s) == JSONparse(s)

\* what jsonToGo returned, as the outcome of a call
walked(r) ==
    IF r.threw THEN Threw("RangeError: Maximum call stack size exceeded")
    ELSE Returned(r.text, r.fields, <<>>)

\* jsonToGo(parse(input), 'AutoGen'), parse being JSON.parse or YAML.parse
parsedToGo(p) ==
    IF ~p.ok THEN Threw("SyntaxError")
    ELSE walked(jsonToGo(p.heap, p.v, <<"A","u","t","o","G","e","n">>, {}, 0))

\* convertToGo(input, type, options); left and lastIndex as in sqlToGoStruct
convertToGo(in, type, opts, left) ==
    LET keep(res) == [res |-> res, lastIndex |-> left]
    IN  CASE type = "json" -> keep(parsedToGo(JSONparse(in)))
          [] type = "yaml" -> keep(parsedToGo(YAMLparse(in)))
          [] type = "sql" -> sqlToGoStruct(in, opts, left)
          [] type = "proto" -> keep(protoToGo(in))
          [] type = "xml" -> keep(xmlToGo(in))
          [] type = "csv" -> keep(csvToGo(in))
          [] OTHER -> keep(Threw("unsupported format type"))

Valid == [isValid |-> TRUE, error |-> ""]
Invalid(error) == [isValid |-> FALSE, error |-> error]

\* /^create\s+table/i
startRegex == Cat(<<Bol, Str(<<"c","r","e","a","t","e">>), Rep(Ws, 1), Str(<<"t","a","b","l","e">>)>>)
\* /CREATE\s+TABLE\s+(?:IF\s+NOT\s+EXISTS\s+)?(?:`|"|')?(\w+)(?:`|"|')?\s*\(([\s\S]+)\)/i
tableRegex ==
    Cat(<<Str(<<"C","R","E","A","T","E">>), Rep(Ws, 1), Str(<<"T","A","B","L","E">>), Rep(Ws, 1),
          Opt(Cat(<<Str(<<"I","F">>), Rep(Ws, 1), Str(<<"N","O","T">>), Rep(Ws, 1), Str(<<"E","X","I","S","T","S">>), Rep(Ws, 1)>>)),
          Opt(Quote), Grp(1, Rep(Wd, 1)), Opt(Quote), Rep(Ws, 0), Lit("("),
          Grp(2, Rep(NotIn({}), 1)), Lit(")")>>)
\* /(?:`|"|')?(\w+)(?:`|"|')?\s+([^\s,]+(?:\s+[^\s,]+)*)(?:\s*\(([^)]+)\))?
\*  (?:\s+([^,]*?))?(?:,|$)/gim
validateColumnRegex ==
    Cat(<<Opt(Quote), Grp(1, Rep(Wd, 1)), Opt(Quote), Rep(Ws, 1),
          Grp(2, Cat(<<Rep(NotWsComma, 1),
                       Star(Cat(<<Rep(Ws, 1), Rep(NotWsComma, 1)>>))>>)),
          Opt(Cat(<<Rep(Ws, 0), Lit("("), Grp(3, Rep(NotIn({")"}), 1)), Lit(")")>>)),
          Opt(Cat(<<Rep(Ws, 1), Grp(4, LazyRep(NotIn({","}), 0))>>)),
          Alt(<<Lit(","), Eol>>)>>)
\* /^\w+$/
wordRegex == Cat(<<Bol, Rep(Wd, 1), Eol>>)

RECURSIVE validateColumnLoop(_, _, _)

\* the body of the while loop for one match of the column pattern
validateColumnStep(columnsStr, match, columnCount) ==
    IF ~match.ok
    THEN IF columnCount = 0 THEN Invalid("no valid column definition found") ELSE Valid
    ELSE IF test(constraintRegex, 0, FlagI, Cap0(columnsStr, match))
    THEN validateColumnLoop(columnsStr, match.end - 1, columnCount)
    ELSE IF Cap(columnsStr, match, 1) = <<>>
            \/ ~test(wordRegex, 0, NoFlags, Cap(columnsStr, match, 1))
    THEN Invalid("invalid column name")
    ELSE IF Cap(columnsStr, match, 2) = <<>> THEN Invalid("column type not given")
    ELSE validateColumnLoop(columnsStr, match.end - 1, columnCount + 1)

\* the while loop of the sql branch of validateFormat
validateColumnLoop(columnsStr, lastIndex, columnCount) ==
    validateColumnStep(columnsStr, exec(validateColumnRegex, 4, FlagIM, columnsStr, lastIndex),
                       columnCount)

\* the sql branch after sqlInput.match(...) gave tableMatch
validateTable(sqlInput, tableMatch) ==
    IF ~tableMatch.ok THEN Invalid("invalid CREATE TABLE statement")
    ELSE IF Cap(sqlInput, tableMatch, 1) = <<>> THEN Invalid("table name not found")
    ELSE validateColumnLoop(Cap(sqlInput, tableMatch, 2), 0, 0)

\* the sql branch on the trimmed input
validateTrimmed(sqlInput) ==
    IF ~test(startRegex, 0, FlagI, sqlInput)
    THEN Invalid("SQL must start with CREATE TABLE")
    ELSE validateTable(sqlInput, exec(tableRegex, 2, FlagI, sqlInput, 0))

validateSql(in) == validateTrimmed(trim(in))

\* /<\/?[^>]+>/g
tagRegex == Cat(<<Lit("<"), Opt(Lit("/")), Rep(NotIn({">"}), 1), Lit(">")>>)

RECURSIVE matchAll(_, _, _, _, _)

matchNext(re, ng, s, m, acc) ==
    IF ~m.ok THEN acc
    ELSE matchAll(re, ng, s, m.end - 1, Append(acc, Cap0(s, m)))

\* s.match(regex) with the g flag: every match, left to right
matchAll(re, ng, s, lastIndex, acc) ==
    matchNext(re, ng, s, exec(re, ng, NoFlags, s, lastIndex), acc)

RECURSIVE tagLoop(_, _, _)
\* the for loop over the tags of the xml branch, tags being the stack
tagLoop(matches, j, tags) ==
    IF j > Len(matches)
    THEN IF Len(tags) > 0 THEN Invalid("unclosed XML tag") ELSE Valid
    ELSE LET tag == matches[j]
             lastTag == tags[Len(tags)]
         IN  IF startsWith(tag, <<"<","/">>)
             THEN IF tags = <<>> \/ ~includes(tag, Sub(lastTag, 2, Len(lastTag)))
                  THEN Invalid("XML tags do not match")
                  ELSE tagLoop(matches, j + 1, Sub(tags, 1, Len(tags)))
             ELSE IF ~endsWith(tag, <<"/",">">>) /\ ~startsWith(tag, <<"<","?">>)
             THEN tagLoop(matches, j + 1, Append(tags, tag))
             ELSE tagLoop(matches, j + 1, tags)

\* the xml branch on the tags of the input
validateTags(matches) ==
    IF matches = <<>> THEN Invalid("no valid XML tag found")
    ELSE tagLoop(matches, 1, <<>>)

validateXml(in) ==
    IF ~startsWith(trim(in), <<"<","?","x","m","l">>) /\ ~startsWith(trim(in), <<"<">>)
    THEN Invalid("invalid XML format")
    ELSE validateTags(matchAll(tagRegex, 0, in, 0, <<>>))

\* the emptiness check without the trim
isBlankUntrimmed(in) == in = <<>>

\* the check of line 917: !input.trim()
isBlank(in) == trim(in) = <<>>

validateFormat(in, type) ==
    IF isBlank(in) THEN Invalid("input is empty")
    ELSE CASE type = "json" ->
                IF JSONparse(in).ok THEN Valid ELSE Invalid("format error: SyntaxError")
           [] type = "yaml" ->
                IF YAMLparse(in).ok THEN Valid ELSE Invalid("format error: YAMLParseError")
           [] type = "sql" -> validateSql(in)
           [] type = "proto" ->
                IF ~includes(in, <<"m","e","s","s","a","g","e">>) THEN Invalid("no message definition found")
                ELSE Valid
           [] type = "xml" -> validateXml(in)
           [] type = "csv" ->
                IF Len(csvLines(in)) < 2
                THEN Invalid("CSV needs a header line and one line of data")
                ELSE Valid
           [] OTHER -> Invalid("unsupported format type")


-----------------------------------------------------------------------------
(* The calls.  entry is the exported function being called, kind, input    *)
(* and options its arguments, parts the pieces the input was put together  *)
(* from, heap and the reference root the object graph handed to jsonToGo.  *)
(* result is the outcome of the call, calls the calls made so far and      *)
(* regexLeft the lastIndex of the column regular expression object of the  *)
(* last sqlToGoStruct call.                                                *)

\* every sequence over S of length at most n
SeqsUpTo(S, n) == UNION {[1..m -> S] : m \in 0..n}

\* what validateFormat returned, in the shape of an outcome
Validated(v) ==
    [status |-> IF v.isValid THEN "valid" ELSE "invalid", error |-> v.error,
     text |-> <<>>, fields |-> <<>>, imports |-> <<>>]

Call(r) == [entry |-> entry, kind |-> kind, input |-> input, options |-> options,
            result |-> r]

\* the call is made: r is what it returned
Converted(r) ==
    /\ result' = r.res
    /\ regexLeft' = r.lastIndex
    /\ calls' = Append(calls, Call(r.res))

\* convertToGo(input, kind, options)
Convert ==
    /\ entry = "convert"
    /\ result = Pending
    /\ Converted(convertToGo(input, kind, options, regexLeft))
    /\ UNCHANGED <<entry, kind, input, options, parts, heap>>

Answered(r) ==
    /\ result' = r
    /\ calls' = Append(calls, Call(r))

\* validateFormat(input, kind)
Validate ==
    /\ entry = "validate"
    /\ result = Pending
    /\ Answered(Validated(validateFormat(input, kind)))
    /\ UNCHANGED <<entry, kind, input, options, parts, heap, regexLeft>>

NoHeap == [nodes |-> <<>>, root |-> 0]

-----------------------------------------------------------------------------
(* CREATE TABLE statements: a head, a list of column definitions, ")"      *)

MaxCols == 2

SqlHeads == {<<"C","R","E","A","T","E"," ","T","A","B","L","E"," ","t"," ","(">>, <<"c","r","e","a","t","e"," ","t","a","b","l","e"," ","i","f"," ","n","o","t"," ","e","x","i","s","t","s"," ",Bq,"t","_","u","s","e","r",Bq," ","(">>, <<"C","R","E","A","T","E"," ","T","A","B","L","E"," ","(">>}
SqlColumns == {<<"n"," ","I","N","T"," ","U","N","S","I","G","N","E","D">>, <<"n"," ","I","N","T">>, <<"i","d"," ","B","I","G","I","N","T"," ","N","O","T"," ","N","U","L","L">>, <<"P","R","I","M","A","R","Y"," ","K","E","Y"," ","(","i","d",")">>,
               <<"t"," ","T","I","N","Y","I","N","T","(","1",")">>, <<"d"," ","D","O","U","B","L","E"," ","P","R","E","C","I","S","I","O","N">>, <<"s"," ","e","n","u","m"," ","(","'","a","'",")"," ","N","O","T"," ","N","U","L","L">>, <<"p"," ","P","O","I","N","T">>}
DBTypes == {"mysql", "postgres", "sqlite", "oracle"}
SqlOptions ==
    {[dbType |-> d, tagType |-> "gorm", usePointer |-> FALSE] : d \in DBTypes}
    \cup {[dbType |-> "mysql", tagType |-> "db", usePointer |-> TRUE],
          [dbType |-> "mysql", tagType |-> "xorm", usePointer |-> FALSE]}

sqlText(p) == p.head \o join(p.cols, <<","," ">>) \o <<")">>

InitSql ==
    /\ kind = "sql"
    /\ entry \in {"convert", "validate"}
    /\ parts \in [head : SqlHeads, cols : SeqsUpTo(SqlColumns, MaxCols)]
    /\ input = sqlText(parts)
    /\ options \in IF entry = "convert" THEN SqlOptions \cup {Undefined} ELSE {Undefined}
    /\ heap = NoHeap
    /\ regexLeft = 0
    /\ result = Pending
    /\ calls = <<>>

NextSql == Convert \/ Validate
SpecSql == InitSql /\ [][NextSql]_vars


\* the columns of the statement that are no table-level constraint, in order
sqlKept == SelectSeq(parts.cols, LAMBDA c : c # <<"P","R","I","M","A","R","Y"," ","K","E","Y"," ","(","i","d",")">>)

\* a convert call under the mysql dialect has returned a struct with one
\* field per column
MysqlConverted ==
    /\ entry = "convert"
    /\ result.status = "ok"
    /\ options # Undefined
    /\ options.dbType = "mysql"
    /\ Len(result.fields) = Len(sqlKept)

\* C1: under the mysql dialect a column declared INT UNSIGNED is rendered
\* with an unsigned integer type, and the same column declared INT with the
\* signed one: the UNSIGNED token after the base type selects the type.
C1_UnsignedSelectsType ==
    MysqlConverted =>
        \A j \in 1..Len(sqlKept) :
            /\ sqlKept[j] = <<"n"," ","I","N","T"," ","U","N","S","I","G","N","E","D">> => startsWith(result.fields[j].goType, <<"u","i","n","t">>)
            /\ sqlKept[j] = <<"n"," ","I","N","T">> => result.fields[j].goType = <<"i","n","t">>


-----------------------------------------------------------------------------
(* validateFormat on short texts of white space, with and without a        *)
(* character that is none, for every format kind and one that is none      *)

MaxBlank == 3

Kinds == {"json", "yaml", "sql", "proto", "xml", "csv"}
BlankChars == WsCh \cup {"x"}

InitBlank ==
    /\ kind \in Kinds \cup {"toml"}
    /\ entry = "validate"
    /\ parts \in SeqsUpTo(BlankChars, MaxBlank)
    /\ input = parts
    /\ options = Undefined
    /\ heap = NoHeap
    /\ regexLeft = 0
    /\ result = Pending
    /\ calls = <<>>

NextBlank == Validate
SpecBlank == InitBlank /\ [][NextBlank]_vars

\* the input is empty or holds white space only
OnlyWhiteSpace == \A j \in 1..Len(input) : input[j] \in {" ", "\n", "\t", "\r"}

\* C2: validate answers isValid = false, with the error of the emptiness
\* check and not one of a format's own checks, for each of the six kinds
\* whenever the input is empty or white space only.
C2_BlankRejectedFirst ==
    (entry = "validate" /\ result # Pending /\ kind \in Kinds /\ OnlyWhiteSpace)
        => (result.status = "invalid" /\ result.error = "input is empty")

\* a text of two white-space characters was validated as proto
C2_Witness ==
    /\ entry = "validate"
    /\ kind = "proto"
    /\ input = <<" ","\n">>
    /\ result.status = "invalid"


-----------------------------------------------------------------------------
(* XML texts: a list of pieces, bare, inside a root element, or inside a   *)
(* root element after a declaration                                        *)

MaxPieces == 3

XmlPieces == {<<"<","t","a","g",">","a","<","/","t","a","g",">">>, <<"<","t","a","g",">","1","<","/","t","a","g",">">>, <<"<","t","a","g","2",">","b","<","/","t","a","g","2",">">>, <<"<","a",">">>, <<"<","/","a",">">>, <<"t">>, <<"<","b","/",">">>}
XmlWraps == {"bare", "root", "declared"}

xmlText(p) ==
    CASE p.wrap = "bare" -> Concat(p.body)
      [] p.wrap = "root" -> <<"<","r",">">> \o Concat(p.body) \o <<"<","/","r",">">>
      [] p.wrap = "declared" -> <<"<","?","x","m","l"," ","v","e","r","s","i","o","n","=","\"","1",".","0","\"","?",">","\n","<","r",">">> \o Concat(p.body) \o <<"<","/","r",">">>

InitXml ==
    /\ kind = "xml"
    /\ entry = "convert"
    /\ parts \in [wrap : XmlWraps, body : SeqsUpTo(XmlPieces, MaxPieces)]
    /\ input = xmlText(parts)
    /\ options = Undefined
    /\ heap = NoHeap
    /\ regexLeft = 0
    /\ result = Pending
    /\ calls = <<>>

NextXml == Convert
SpecXml == InitXml /\ [][NextXml]_vars

\* the first position after i that holds one of the characters stop, or 0
NextOf(s, i, stop) ==
    LET at == {p \in (i + 1)..Len(s) : s[p] \in stop}
    IN  IF at = {} THEN 0 ELSE CHOOSE p \in at : \A q \in at : p <= q

\* a simple paired element <name>text</name> starts at i: its name and text
PairAt(s, i) ==
    LET j == NextOf(s, i, {">", "/", "<"})
        k == NextOf(s, j, {"<"})
        name == Sub(s, i + 1, j)
        close == <<"<","/">> \o name \o <<">">>
    IN  IF s[i] = "<" /\ j > i + 1 /\ s[j] = ">" /\ k > 0
           /\ k + Len(close) - 1 <= Len(s) /\ SubSeq(s, k, k + Len(close) - 1) = close
        THEN [ok |-> TRUE, name |-> name, text |-> Sub(s, j + 1, k)]
        ELSE [ok |-> FALSE]

\* the simple paired elements of the input, left to right
SimplePairs ==
    LET starts == {i \in 1..Len(input) : PairAt(input, i).ok}
    IN  [r \in 1..Cardinality(starts) |-> PairAt(input, Nth(starts, r))]

\* one field per distinct tag name, in the order of first occurrence
ExpectedXmlFields ==
    LET pairs == SimplePairs
        firsts == {r \in 1..Len(pairs) : \A q \in 1..(r - 1) : pairs[q].name # pairs[r].name}
    IN  [m \in 1..Cardinality(firsts) |->
           LET r == Nth(firsts, m)
           IN  [key |-> pairs[r].name,
                isArray |-> \E q \in 1..Len(pairs) : q # r /\ pairs[q].name = pairs[r].name,
                type |-> inferTypeFromValue(pairs[r].text)]]

\* C6: xml conversion gives exactly one field per distinct tag name among
\* the simple paired elements, in the order of first occurrence; the field
\* is an array if and only if the name occurs at least twice, and its leaf
\* type is the one inferred from the text of the first occurrence.
C6_XmlFields ==
    (entry = "convert" /\ result.status = "ok") =>
        /\ Len(result.fields) = Len(ExpectedXmlFields)
        /\ \A m \in 1..Len(result.fields) :
             /\ result.fields[m].key = ExpectedXmlFields[m].key
             /\ result.fields[m].isArray = ExpectedXmlFields[m].isArray
             /\ result.fields[m].type = ExpectedXmlFields[m].type
             /\ result.fields[m].goFieldType =
                  (IF ExpectedXmlFields[m].isArray THEN <<"[","]">> ELSE <<>>)
                  \o ExpectedXmlFields[m].type

\* two <tag>..</tag> elements of different texts and one <tag2>b</tag2>
\* under a root were converted: tag is an array of the first text's type
C6_Witness ==
    /\ entry = "convert"
    /\ result.status = "ok"
    /\ parts = [wrap |-> "root", body |-> <<<<"<","t","a","g",">","a","<","/","t","a","g",">">>, <<"<","t","a","g",">","1","<","/","t","a","g",">">>, <<"<","t","a","g","2",">","b","<","/","t","a","g","2",">">>>>]
    /\ Len(result.fields) = 2
    /\ result.fields[1].goFieldType = <<"[","]","s","t","r","i","n","g">>
    /\ result.fields[2].goFieldType = <<"s","t","r","i","n","g">>

-----------------------------------------------------------------------------
(* XML texts for validate: opening, closing and self-closing tags          *)

TagPieces == {<<"<","a",">">>, <<"<","/","a",">">>, <<"<","/","a","b",">">>, <<"<","a"," ","x","=","\"","1","\"",">">>, <<"<","b","/",">">>, <<"t">>, <<"<","?","x","m","l"," ","v","e","r","s","i","o","n","=","\"","1",".","0","\"","?",">">>}

InitTags ==
    /\ kind = "xml"
    /\ entry = "validate"
    /\ parts \in [wrap : {"bare", "root"}, body : SeqsUpTo(TagPieces, MaxPieces)]
    /\ input = xmlText(parts)
    /\ options = Undefined
    /\ heap = NoHeap
    /\ regexLeft = 0
    /\ result = Pending
    /\ calls = <<>>

NextTags == Validate
SpecTags == InitTags /\ [][NextTags]_vars

\* the name of a tag: what follows "<" or "</" up to white space, "/" or ">"
TagName(tag) ==
    LET from == IF startsWith(tag, <<"<","/">>) THEN 2 ELSE 1
        to == NextOf(tag, from, {" ", "\n", "\t", "\r", "/", ">"})
    IN  Sub(tag, from + 1, to)

RECURSIVE WellNested(_, _, _)
\* the tags from the j-th on close the open names of the stack, innermost
\* first, each by its own name, and leave none open
WellNested(tags, j, stack) ==
    IF j > Len(tags) THEN stack = <<>>
    ELSE IF startsWith(tags[j], <<"<","/">>)
    THEN /\ stack # <<>>
         /\ stack[Len(stack)] = TagName(tags[j])
         /\ WellNested(tags, j + 1, SubSeq(stack, 1, Len(stack) - 1))
    ELSE IF endsWith(tags[j], <<"/",">">>) \/ startsWith(tags[j], <<"<","?">>)
    THEN WellNested(tags, j + 1, stack)
    ELSE WellNested(tags, j + 1, Append(stack, TagName(tags[j])))

\* C10: validate for kind xml accepts an input exactly when it starts with
\* a declaration or a tag and every closing tag has the name of the most
\* recently opened unclosed tag, none being left open: <a> closed by </ab>
\* is rejected, <a x="1"> closed by </a> is accepted.
C10_XmlStackDiscipline ==
    (entry = "validate" /\ result # Pending) =>
        (result.status = "valid"
           <=> /\ startsWith(trim(input), <<"<">>)
               /\ WellNested(matchAll(tagRegex, 0, input, 0, <<>>), 1, <<>>))


-----------------------------------------------------------------------------
(* CSV texts: rows of cells, joined by commas and line breaks              *)

MaxLines == 3

CsvRows == {<<<<"i","d">>, <<"n","a","m","e">>>>, <<<<"1">>, <<"a","l","i","c","e">>>>, <<<<>>>>, <<<<" "," ">>>>, <<<<"2",".","5">>, <<" ","t","r","u","e"," ">>, <<"x">>>>,
            <<<<"a">>>>, <<<<"2","0","2","4","-","0","1","-","0","1","T","0","0",":","0","0",":","0","0">>, <<"7">>>>, <<<<" ","i","d">>, <<"N","a","m","e"," ">>>>}
LineBreaks == {<<"\n">>, <<"\r","\n">>}

csvText(p) == join([j \in 1..Len(p.rows) |-> join(p.rows[j], <<",">>)], p.sep)

InitCsv ==
    /\ kind = "csv"
    /\ entry = "convert"
    /\ parts \in [rows : SeqsUpTo(CsvRows, MaxLines), sep : LineBreaks]
    /\ input = csvText(parts)
    /\ options = Undefined
    /\ heap = NoHeap
    /\ regexLeft = 0
    /\ result = Pending
    /\ calls = <<>>

NextCsv == Convert
SpecCsv == InitCsv /\ [][NextCsv]_vars

\* the rows that are not blank, in order
NonBlankRows == SelectSeq(parts.rows, LAMBDA row : trim(join(row, <<",">>)) # <<>>)

\* the leaf type of the i-th cell of a row, string where there is no cell
CellType(row, i) == inferTypeFromValue(IF i <= Len(row) THEN trim(row[i]) ELSE NoValue)

\* C7: csv conversion uses only the header line and the first non-blank
\* data line: one field per header column, in header order, named by the
\* header with its first letter capitalized and typed by the value at the
\* same position of the first data line (id,name over 1,alice gives Id int
\* and Name string); later data lines never change the result.
C7_CsvHeaderAndFirstRow ==
    (entry = "convert" /\ result # Pending /\ Len(NonBlankRows) >= 2) =>
        LET header == NonBlankRows[1]
            first == NonBlankRows[2]
        IN  /\ result.status = "ok"
            /\ Len(result.fields) = Len(header)
            /\ \A i \in 1..Len(header) :
                 /\ result.fields[i].key = trim(header[i])
                 /\ result.fields[i].name = capitalizeFirst(trim(header[i]))
                 /\ result.fields[i].type = CellType(first, i)
            /\ result.text = csvToGo(join(header, <<",">>) \o <<"\n">> \o join(first, <<",">>)).text
            /\ (header = <<<<"i","d">>, <<"n","a","m","e">>>> /\ first = <<<<"1">>, <<"a","l","i","c","e">>>>
                  => result.text = <<"t","y","p","e"," ","A","u","t","o","G","e","n"," ","s","t","r","u","c","t"," ","{","\n","\t","I","d"," ","i","n","t"," ",Bq,"j","s","o","n",":","\"","i","d","\"",Bq,"\n","\t","N","a","m","e"," ","s","t","r","i","n","g"," ",Bq,"j","s","o","n",":","\"","n","a","m","e","\"",Bq,"\n","}","\n">>)

\* id,name / a blank line / 1,alice / a later line of other types
C7_Witness ==
    /\ entry = "convert"
    /\ parts.rows = <<<<<<"i","d">>, <<"n","a","m","e">>>>, <<<<" "," ">>>>, <<<<"1">>, <<"a","l","i","c","e">>>>>>
    /\ result.status = "ok"
    /\ result.fields[1].type = <<"i","n","t">>
    /\ result.fields[2].name = <<"N","a","m","e">>


-----------------------------------------------------------------------------
(* JSON texts {"n": x} and {"n": [x]} for numbers x around the bounds of   *)
(* the signed 32-bit integers; a number is written as hi and two digits lo *)

NumSpan == 2

RECURSIVE digitsOf(_)
\* the decimal digits of a natural number
digitsOf(n) ==
    IF n < 10 THEN <<<<"0","1","2","3","4","5","6","7","8","9">>[n + 1]>>
    ELSE digitsOf(n \div 10) \o <<<<"0","1","2","3","4","5","6","7","8","9">>[(n % 10) + 1]>>

NumHis == {0, 2147483, 21474836, 42949672, 214748364}
NumLos == (47 - NumSpan)..(48 + NumSpan)
NumFracs == {<<>>, <<".","0">>, <<".","5">>, <<".","0","0">>, <<".","2","5">>}

numText(p) ==
    (IF p.neg THEN <<"-">> ELSE <<>>)
    \o (IF p.hi = 0 THEN <<>> ELSE digitsOf(p.hi)) \o digitsOf(p.lo) \o p.frac

numJson(p) ==
    IF p.inArray THEN <<"{","\"","n","\"",":"," ","[">> \o numText(p) \o <<"]","}">>
    ELSE <<"{","\"","n","\"",":"," ">> \o numText(p) \o <<"}">>

InitNum ==
    /\ kind \in {"json", "yaml"}
    /\ entry = "convert"
    /\ parts \in [neg : BOOLEAN, hi : NumHis, lo : NumLos, frac : NumFracs,
                  inArray : BOOLEAN]
    /\ input = numJson(parts)
    /\ options = Undefined
    /\ heap = NoHeap
    /\ regexLeft = 0
    /\ result = Pending
    /\ calls = <<>>

NextNum == Convert
SpecNum == InitNum /\ [][NextNum]_vars

\* the number written by parts is integral
NumIntegral == parts.frac \in {<<>>, <<".","0">>, <<".","0","0">>}

\* -2147483648 <= hi * 100 + lo <= 2147483647, with the sign of parts
NumInInt32 ==
    \/ parts.hi < 21474836
    \/ parts.hi = 21474836 /\ parts.lo <= (IF parts.neg THEN 48 ELSE 47)

\* C4: an integral number from -2147483648 to 2147483647 infers to int (so
\* 2147483647 and -2147483648 do), an integral number outside that range to
\* int64 (so 2147483648 and -2147483649 do), and a number that is not
\* integral to float64.
C4_Int32Boundary ==
    (entry = "convert" /\ result # Pending) =>
        /\ result.status = "ok"
        /\ Len(result.fields) = 1
        /\ result.fields[1].isArray = parts.inArray
        /\ result.fields[1].type =
             (IF ~NumIntegral THEN <<"f","l","o","a","t","6","4">>
              ELSE IF NumInInt32 THEN <<"i","n","t">> ELSE <<"i","n","t","6","4">>)

\* 2147483647, the largest number of the 32-bit range, was converted to int
C4_Witness ==
    /\ entry = "convert"
    /\ kind = "json"
    /\ input = <<"{","\"","n","\"",":"," ","2","1","4","7","4","8","3","6","4","7","}">>
    /\ result.status = "ok"
    /\ result.fields[1].type = <<"i","n","t">>

-----------------------------------------------------------------------------
(* JSON objects of a few keys, some of them integer-like                   *)

MaxKeys == 3

JsonKeys == {<<"b">>, <<"a">>, <<"1">>, <<"1","0">>, <<"2">>}
JsonScalars == {<<"1">>, <<"\"","s","\"">>}

memberText(m) == <<"\"">> \o m.key \o <<"\"",":">> \o m.value
keysJson(ms) == <<"{">> \o join([j \in 1..Len(ms) |-> memberText(ms[j])], <<",">>) \o <<"}">>

InitKeys ==
    /\ kind \in {"json", "yaml"}
    /\ entry = "convert"
    /\ parts \in SeqsUpTo([key : JsonKeys, value : JsonScalars], MaxKeys)
    /\ input = keysJson(parts)
    /\ options = Undefined
    /\ heap = NoHeap
    /\ regexLeft = 0
    /\ result = Pending
    /\ calls = <<>>

NextKeys == Convert
SpecKeys == InitKeys /\ [][NextKeys]_vars

\* the distinct keys of the text, in the order of their first occurrence
KeysInSourceOrder ==
    LET firsts == {j \in 1..Len(parts) : \A m \in 1..(j - 1) : parts[m].key # parts[j].key}
    IN  [r \in 1..Cardinality(firsts) |-> parts[Nth(firsts, r)].key]

\* C5: the struct of a JSON object has as many field lines as the object
\* has distinct top-level keys, in the order in which the keys appear in
\* the source text, integer-like keys such as "1" included.
C5_FieldsInSourceOrder ==
    (entry = "convert" /\ result # Pending) =>
        /\ result.status = "ok"
        /\ Len(result.fields) = Len(KeysInSourceOrder)
        /\ \A j \in 1..Len(result.fields) : result.fields[j].key = KeysInSourceOrder[j]


-----------------------------------------------------------------------------
(* Object graphs built in memory: jsonToGo called on a heap of a few nodes *)
(* whose properties hold a number or a reference to any node               *)

MaxNodes == 2

HeapKeys == <<<<"a">>, <<"b">>>>
HeapValues(n) == {Num(FALSE, <<"1">>, <<>>)} \cup {RefV(k) : k \in 1..n}
keyed(vs) == [j \in 1..Len(vs) |-> <<HeapKeys[j], vs[j]>>]
ObjNodes(n) == {ObjNode(keyed(vs)) : vs \in SeqsUpTo(HeapValues(n), Len(HeapKeys))}
ArrNodes(n) == {ArrNode(vs) : vs \in SeqsUpTo(HeapValues(n), Len(HeapKeys))}

InitHeap ==
    /\ kind = "json"
    /\ entry = "jsonToGo"
    /\ parts = <<>>
    /\ input = <<>>
    /\ options = Undefined
    /\ \E n \in 1..MaxNodes :
         /\ heap \in [nodes : [1..n -> ObjNodes(n) \cup ArrNodes(n)], root : {1}]
         /\ heap.nodes[1].kind = "object"
    /\ regexLeft = 0
    /\ result = Pending
    /\ calls = <<>>

\* jsonToGo(obj, 'AutoGen') on the root of the heap
CallJsonToGo ==
    /\ entry = "jsonToGo"
    /\ result = Pending
    /\ Answered(walked(jsonToGo(heap.nodes, RefV(heap.root), <<"A","u","t","o","G","e","n">>, {}, 0)))
    /\ UNCHANGED <<entry, kind, input, options, parts, heap, regexLeft>>

NextHeap == CallJsonToGo
SpecHeap == InitHeap /\ [][NextHeap]_vars

\* the values held by a node
ValuesOf(node) ==
    IF node.kind = "array" THEN node.props
    ELSE [j \in 1..Len(node.props) |-> node.props[j][2]]

\* node a holds a reference to node b
Edge(hp, a, b) == \E j \in 1..Len(ValuesOf(hp[a])) : ValuesOf(hp[a])[j] = RefV(b)

\* b is reached from a by one or more references
Reaches(hp, a, b) ==
    \E p \in UNION {[1..m -> 1..Len(hp)] : m \in 2..(Len(hp) + 1)} :
        /\ p[1] = a
        /\ p[Len(p)] = b
        /\ \A i \in 1..(Len(p) - 1) : Edge(hp, p[i], p[i + 1])

\* the graph under the root holds a cycle
Cyclic ==
    \E k \in 1..Len(heap.nodes) :
        /\ k = heap.root \/ Reaches(heap.nodes, heap.root, k)
        /\ Reaches(heap.nodes, k, k)

\* C3: on a finite object graph that holds a cycle, through object fields
\* and/or arrays, jsonToGo terminates with a finite output, and a field of
\* the root that holds the root itself is rendered as interface{}.
C3_CycleTerminates ==
    (entry = "jsonToGo" /\ result # Pending /\ Cyclic) =>
        /\ result.status = "ok"
        /\ \A j \in 1..Len(heap.nodes[heap.root].props) :
             heap.nodes[heap.root].props[j][2] = RefV(heap.root)
                => result.fields[j].type = <<"i","n","t","e","r","f","a","c","e","{","}">>


-----------------------------------------------------------------------------
(* Sequences of calls: each call is any of a few convert and validate      *)
(* calls, made after the previous call has returned                        *)

MaxCalls == 3

TwoColumns == <<"C","R","E","A","T","E"," ","T","A","B","L","E"," ","t"," ","(","i","d"," ","B","I","G","I","N","T"," ","N","O","T"," ","N","U","L","L",","," ","n"," ","I","N","T",")">>
MysqlGorm == [dbType |-> "mysql", tagType |-> "gorm", usePointer |-> FALSE]

CallChoices ==
    {[entry |-> "convert", kind |-> "sql", input |-> TwoColumns, options |-> MysqlGorm],
     [entry |-> "convert", kind |-> "sql", input |-> TwoColumns, options |-> Undefined],
     [entry |-> "validate", kind |-> "sql", input |-> TwoColumns, options |-> Undefined],
     [entry |-> "convert", kind |-> "json", input |-> <<"{","\"","a","\"",":"," ","{","\"","b","\"",":"," ","2","1","4","7","4","8","3","6","4","8","}","}">>,
      options |-> Undefined],
     [entry |-> "convert", kind |-> "yaml", input |-> <<"{","\"","a","\"",":"," ","[","1",".","5","]","}">>, options |-> Undefined],
     [entry |-> "convert", kind |-> "proto", input |-> <<"m","e","s","s","a","g","e"," ","M"," ","{","\n"," "," ","r","e","p","e","a","t","e","d"," ","s","t","r","i","n","g"," ","a"," ","="," ","1",";","\n","}">>,
      options |-> Undefined],
     [entry |-> "convert", kind |-> "xml", input |-> <<"<","r",">","<","a",">","1","<","/","a",">","<","a",">","2","<","/","a",">","<","/","r",">">>,
      options |-> Undefined],
     [entry |-> "convert", kind |-> "csv", input |-> <<"i","d",",","n","a","m","e","\n","1",",","a","l","i","c","e">>, options |-> Undefined],
     [entry |-> "validate", kind |-> "xml", input |-> <<"<","r",">","<","a",">","1","<","/","a",">","<","a",">","2","<","/","a",">","<","/","r",">">>,
      options |-> Undefined]}

\* the caller starts the call c
Start(c) ==
    /\ entry' = c.entry
    /\ kind' = c.kind
    /\ input' = c.input
    /\ options' = c.options
    /\ result' = Pending

InitCalls ==
    /\ \E c \in CallChoices :
         /\ entry = c.entry
         /\ kind = c.kind
         /\ input = c.input
         /\ options = c.options
    /\ parts = <<>>
    /\ heap = NoHeap
    /\ regexLeft = 0
    /\ result = Pending
    /\ calls = <<>>

\* after a call has returned, the caller makes another one
NewCall ==
    /\ result # Pending
    /\ Len(calls) < MaxCalls
    /\ \E c \in CallChoices : Start(c)
    /\ UNCHANGED <<parts, heap, regexLeft, calls>>

NextCalls == Convert \/ Validate \/ NewCall
SpecCalls == InitCalls /\ [][NextCalls]_vars

\* C8: convert is deterministic and stateless: two convert calls of the same
\* kind, input text and options, in any order and with any other calls in
\* between, return the same output or fail with the same error.
C8_ConvertDeterministic ==
    \A i, j \in 1..Len(calls) :
        (/\ calls[i].entry = "convert"
         /\ calls[j].entry = "convert"
         /\ calls[i].kind = calls[j].kind
         /\ calls[i].input = calls[j].input
         /\ calls[i].options = calls[j].options)
            => calls[i].result = calls[j].result

\* the same sql conversion was made before and after one that failed
C8_Witness ==
    /\ Len(calls) = 3
    /\ calls[1].kind = "sql" /\ calls[1].entry = "convert" /\ calls[1].options = MysqlGorm
    /\ calls[1].result.status = "ok"
    /\ Len(calls[1].result.fields) = 2
    /\ calls[2].entry = "convert" /\ calls[2].result.status = "error"
    /\ calls[3].kind = "sql" /\ calls[3].entry = "convert" /\ calls[3].options = MysqlGorm
    /\ calls[3].result = calls[1].result

-----------------------------------------------------------------------------
(* Single convert calls on SQL texts, XML texts and unsupported kinds      *)

InitUnsupported ==
    /\ kind \in {"toml", "ini", "JSON", ""}
    /\ entry = "convert"
    /\ parts \in SeqsUpTo({"a", "=", "1", "{", "}"}, MaxBlank)
    /\ input = parts
    /\ options \in {Undefined, MysqlGorm}
    /\ heap = NoHeap
    /\ regexLeft = 0
    /\ result = Pending
    /\ calls = <<>>

InitFail ==
    \/ InitSql /\ entry = "convert" /\ options \in {Undefined, MysqlGorm}
    \/ InitXml
    \/ InitUnsupported

NextFail == Convert
SpecFail == InitFail /\ [][NextFail]_vars

\* an XML text without any "<": it has no root element
Rootless == parts.wrap = "bare" /\ \A j \in 1..Len(parts.body) : parts.body[j] = <<"t">>

\* C9: convert fails, and returns no output, when the kind is sql and the
\* options are absent (for every SQL text, one whose column list holds only
\* table-level constraints included), when the kind is not one of the six
\* supported kinds, when the SQL text holds no well-formed CREATE TABLE
\* <name> ( ... ) statement, and when the XML text has no root element.
C9_ConvertFails ==
    (entry = "convert" /\ result # Pending) =>
        /\ (kind = "sql" /\ options = Undefined) => result.status = "error"
        /\ kind \notin Kinds => result.status = "error"
        /\ (kind = "sql" /\ parts.head = <<"C","R","E","A","T","E"," ","T","A","B","L","E"," ","(">>) => result.status = "error"
        /\ (kind = "xml" /\ Rootless) => result.status = "error"


-----------------------------------------------------------------------------
(* SQL texts for validate: a head, and entries that are column definitions *)
(* or table-level constraints                                              *)

CheckedHeads == {<<"C","R","E","A","T","E"," ","T","A","B","L","E"," ","t"," ","(">>, <<"c","r","e","a","t","e"," "," ","t","a","b","l","e"," ",Bq,"t",Bq," ","(">>, <<"A","L","T","E","R"," ","T","A","B","L","E"," ","t"," ","(">>,
                 <<"-","-"," ","c","\n","C","R","E","A","T","E"," ","T","A","B","L","E"," ","t"," ","(">>}
CheckedLeads == {<<>>, <<" ","\n">>}
CheckedEntries ==
    {[text |-> <<"n"," ","I","N","T">>, column |-> TRUE],
     [text |-> <<"i","d"," ","B","I","G","I","N","T"," ","N","O","T"," ","N","U","L","L">>, column |-> TRUE],
     [text |-> <<"p","r","i","m","a","r","y","_","k","e","y"," ","I","N","T">>, column |-> TRUE],
     [text |-> <<"P","R","I","M","A","R","Y"," ","K","E","Y"," ","(","i","d",")">>, column |-> FALSE],
     [text |-> <<"u","n","i","q","u","e"," ","k","e","y"," ","u","k"," ","(","a",","," ","b"," ","D","E","S","C",")">>, column |-> FALSE],
     [text |-> <<"F","O","R","E","I","G","N"," ","K","E","Y"," ","(","a",")"," ","R","E","F","E","R","E","N","C","E","S"," ","o"," ","(","x",","," ","y",")">>, column |-> FALSE],
     [text |-> <<"K","E","Y"," ","i","d","x"," ","(","a",")">>, column |-> FALSE]}

checkedText(p) ==
    p.lead \o p.head \o join([j \in 1..Len(p.cols) |-> p.cols[j].text], <<","," ">>) \o <<")">>

InitChecked ==
    /\ kind = "sql"
    /\ entry = "validate"
    /\ parts \in [lead : CheckedLeads, head : CheckedHeads,
                  cols : SeqsUpTo(CheckedEntries, MaxCols)]
    /\ input = checkedText(parts)
    /\ options = Undefined
    /\ heap = NoHeap
    /\ regexLeft = 0
    /\ result = Pending
    /\ calls = <<>>

NextChecked == Validate
SpecChecked == InitChecked /\ [][NextChecked]_vars

\* the text starts, after trimming, with CREATE TABLE in any case
StartsWithCreateTable == parts.head \in {<<"C","R","E","A","T","E"," ","T","A","B","L","E"," ","t"," ","(">>, <<"c","r","e","a","t","e"," "," ","t","a","b","l","e"," ",Bq,"t",Bq," ","(">>}

\* the column list holds a column definition, not only constraints
HoldsColumn == \E j \in 1..Len(parts.cols) : parts.cols[j].column

\* C11: validate for kind sql accepts an input only if, after trimming, it
\* starts with CREATE TABLE in any case and its column list holds at least
\* one column definition that is not a table-level constraint; a list of
\* constraint entries only, or another start, is rejected.
C11_SqlNeedsColumn ==
    (entry = "validate" /\ result # Pending /\ result.status = "valid") =>
        /\ StartsWithCreateTable
        /\ HoldsColumn


-----------------------------------------------------------------------------
(* SQL texts of columns with and without NOT NULL and PRIMARY KEY          *)

NullableColumns ==
    {[text |-> <<"u","s","e","r","n","a","m","e"," ","V","A","R","C","H","A","R","(","5","0",")"," ","N","O","T"," ","N","U","L","L">>, nullable |-> FALSE],
     [text |-> <<"i","d"," ","B","I","G","I","N","T"," ","P","R","I","M","A","R","Y"," ","K","E","Y">>, nullable |-> FALSE],
     [text |-> <<"s"," ","e","n","u","m"," ","(","'","a","'",")"," ","N","O","T"," ","N","U","L","L">>, nullable |-> FALSE],
     [text |-> <<"e"," ","e","n","u","m"," ","(","'","a","'",")">>, nullable |-> TRUE],
     [text |-> <<"n","a","m","e"," ","T","E","X","T">>, nullable |-> TRUE],
     [text |-> <<"b"," ","B","L","O","B">>, nullable |-> TRUE]}

PointerOptions ==
    {[dbType |-> d, tagType |-> "gorm", usePointer |-> u] :
        d \in {"mysql", "postgres"}, u \in BOOLEAN}

nullableText(cols) ==
    <<"C","R","E","A","T","E"," ","T","A","B","L","E"," ","t"," ","(">> \o join([j \in 1..Len(cols) |-> cols[j].text], <<",","\n"," "," ">>) \o <<")">>

InitNullable ==
    /\ kind = "sql"
    /\ entry = "convert"
    /\ parts \in SeqsUpTo(NullableColumns, MaxCols)
    /\ input = nullableText(parts)
    /\ options \in PointerOptions
    /\ heap = NoHeap
    /\ regexLeft = 0
    /\ result = Pending
    /\ calls = <<>>

NextNullable == Convert
SpecNullable == InitNullable /\ [][NextNullable]_vars

\* the rendered type of the j-th field is pointer-qualified
Pointed(j) == startsWith(result.fields[j].type, <<"*">>)

\* C12: in sql conversion a nullable column is rendered with a pointer type
\* whatever the value of usePointer, and a column is rendered with a bare
\* type only when usePointer is false and the column is not nullable.
C12_NullableIsPointer ==
    (entry = "convert" /\ result # Pending) =>
        /\ result.status = "ok"
        /\ Len(result.fields) = Len(parts)
        /\ \A j \in 1..Len(result.fields) :
             /\ parts[j].nullable => Pointed(j)
             /\ ~Pointed(j) => (~options.usePointer /\ ~parts[j].nullable)

\* a nullable column and a NOT NULL enum column were converted without the
\* usePointer flag: the first is a pointer, the second a bare string
C12_Witness ==
    /\ entry = "convert"
    /\ result.status = "ok"
    /\ ~options.usePointer
    /\ parts = <<[text |-> <<"n","a","m","e"," ","T","E","X","T">>, nullable |-> TRUE],
                 [text |-> <<"s"," ","e","n","u","m"," ","(","'","a","'",")"," ","N","O","T"," ","N","U","L","L">>, nullable |-> FALSE]>>
    /\ result.fields[1].type = <<"*","s","t","r","i","n","g">>
    /\ result.fields[2].type = <<"s","t","r","i","n","g">>

\* C13: a column is nullable if and only if its definition holds neither
\* NOT NULL nor PRIMARY KEY after the type: with usePointer false a column
\* such as username VARCHAR(50) NOT NULL or id BIGINT PRIMARY KEY is
\* rendered without a pointer, and a column with neither with a pointer.
C13_NullableIffUnconstrained ==
    (entry = "convert" /\ result.status = "ok" /\ ~options.usePointer) =>
        /\ Len(result.fields) = Len(parts)
        /\ \A j \in 1..Len(result.fields) : Pointed(j) <=> parts[j].nullable


-----------------------------------------------------------------------------
(* SQL texts of one column x of a given type, under each dialect           *)

TypeTexts ==
    {[text |-> <<"P","O","I","N","T">>, base |-> <<"P","O","I","N","T">>, size |-> <<>>],
     [text |-> <<"G","E","O","M","E","T","R","Y">>, base |-> <<"G","E","O","M","E","T","R","Y">>, size |-> <<>>],
     [text |-> <<"I","N","T","E","G","E","R">>, base |-> <<"I","N","T","E","G","E","R">>, size |-> <<>>],
     [text |-> <<"I","N","T">>, base |-> <<"I","N","T">>, size |-> <<>>],
     [text |-> <<"i","n","t">>, base |-> <<"I","N","T">>, size |-> <<>>],
     [text |-> <<"B","I","G","I","N","T">>, base |-> <<"B","I","G","I","N","T">>, size |-> <<>>],
     [text |-> <<"T","E","X","T">>, base |-> <<"T","E","X","T">>, size |-> <<>>],
     [text |-> <<"J","S","O","N">>, base |-> <<"J","S","O","N">>, size |-> <<>>],
     [text |-> <<"T","I","M","E","S","T","A","M","P">>, base |-> <<"T","I","M","E","S","T","A","M","P">>, size |-> <<>>],
     [text |-> <<"V","A","R","C","H","A","R","(","5","0",")">>, base |-> <<"V","A","R","C","H","A","R">>, size |-> <<"5","0">>],
     [text |-> <<"D","O","U","B","L","E"," ","P","R","E","C","I","S","I","O","N">>, base |-> <<"D","O","U","B","L","E"," ","P","R","E","C","I","S","I","O","N">>, size |-> <<>>],
     [text |-> <<"d","o","u","b","l","e"," "," ","p","r","e","c","i","s","i","o","n">>, base |-> <<"D","O","U","B","L","E"," ","P","R","E","C","I","S","I","O","N">>, size |-> <<>>],
     [text |-> <<"C","H","A","R","A","C","T","E","R"," ","V","A","R","Y","I","N","G">>, base |-> <<"C","H","A","R","A","C","T","E","R"," ","V","A","R","Y","I","N","G">>, size |-> <<>>],
     [text |-> <<"T","I","N","Y","I","N","T">>, base |-> <<"T","I","N","Y","I","N","T">>, size |-> <<>>],
     [text |-> <<"T","I","N","Y","I","N","T","(","1",")">>, base |-> <<"T","I","N","Y","I","N","T">>, size |-> <<"1">>],
     [text |-> <<"t","i","n","y","i","n","t"," ","(","1",")">>, base |-> <<"T","I","N","Y","I","N","T">>, size |-> <<"1">>],
     [text |-> <<"T","I","N","Y","I","N","T","(","4",")">>, base |-> <<"T","I","N","Y","I","N","T">>, size |-> <<"4">>]}

typeText(p) == <<"C","R","E","A","T","E"," ","T","A","B","L","E"," ","t"," ","(","x"," ">> \o p.text \o p.tail \o <<")">>

InitTypes ==
    /\ kind = "sql"
    /\ entry = "convert"
    /\ parts \in {[text |-> t.text, base |-> t.base, size |-> t.size, tail |-> e] :
                     t \in TypeTexts, e \in {<<>>, <<",","\n"," "," ","P","R","I","M","A","R","Y"," ","K","E","Y"," ","(","x",")">>}}
    /\ input = typeText(parts)
    /\ options \in {[dbType |-> d, tagType |-> "gorm", usePointer |-> TRUE] : d \in DBTypes}
    /\ heap = NoHeap
    /\ regexLeft = 0
    /\ result = Pending
    /\ calls = <<>>

NextTypes == Convert
SpecTypes == InitTypes /\ [][NextTypes]_vars

\* the table of the dialect of the call, and its keys
DialectTable == typeMap(options.dbType, FALSE, parts.size)
DialectKeys == {DialectTable[j][1] : j \in 1..Len(DialectTable)}
\* the Go type the table gives for a key
TypeOfKey(k) == DialectTable[CHOOSE j \in 1..Len(DialectTable) : DialectTable[j][1] = k][2]

\* the call has returned a struct of the one column x
TypeConverted == entry = "convert" /\ result # Pending

\* C14: for every dialect, a base type that is not a key of the dialect's
\* own table (POINT or INTEGER under mysql, INT under postgres or sqlite)
\* maps to interface{}, never to the type of another entry, and the
\* conversion still returns its output.
C14_UnknownTypeIsInterface ==
    (TypeConverted /\ parts.base \notin DialectKeys) =>
        /\ result.status = "ok"
        /\ Len(result.fields) = 1
        /\ result.fields[1].goType = <<"i","n","t","e","r","f","a","c","e","{","}">>

\* C15: a base type of several words that is a key of the dialect's table
\* maps to the type of that key: DOUBLE PRECISION under postgres to
\* float64, CHARACTER VARYING to string.
C15_CompoundTypeResolved ==
    (TypeConverted /\ parts.base \in DialectKeys /\ includes(parts.base, <<" ">>)) =>
        /\ result.status = "ok"
        /\ Len(result.fields) = 1
        /\ result.fields[1].goType = TypeOfKey(parts.base)
        /\ (options.dbType = "postgres" /\ parts.base = <<"D","O","U","B","L","E"," ","P","R","E","C","I","S","I","O","N">>)
              => result.fields[1].goType = <<"f","l","o","a","t","6","4">>

\* C16: under mysql a column declared TINYINT(1) is rendered as bool and a
\* TINYINT of another size or of none as an 8-bit integer; under the other
\* dialects TINYINT(1) is never made bool by this case.
C16_TinyintOneIsBool ==
    (TypeConverted /\ parts.base = <<"T","I","N","Y","I","N","T">>) =>
        /\ result.status = "ok"
        /\ Len(result.fields) = 1
        /\ (options.dbType = "mysql" /\ parts.size = <<"1">>)
              => result.fields[1].goType = <<"b","o","o","l">>
        /\ (options.dbType = "mysql" /\ parts.size # <<"1">>)
              => result.fields[1].goType \in {<<"i","n","t","8">>, <<"u","i","n","t","8">>}
        /\ options.dbType # "mysql" => result.fields[1].goType # <<"b","o","o","l">>


-----------------------------------------------------------------------------
(* Protobuf texts: a few message definitions, one after the other          *)

MaxMessages == 2

ProtoMessages ==
    {<<"m","e","s","s","a","g","e"," ","M"," ","{","\n"," "," ","s","t","r","i","n","g"," ","a"," ","="," ","1",";","\n","}">>,
     <<"m","e","s","s","a","g","e"," ","M"," ","{","\n"," "," ","T","i","m","e","s","t","a","m","p"," ","t"," ","="," ","1",";","\n","}">>,
     <<"m","e","s","s","a","g","e"," ","N"," ","{","\n"," "," ","r","e","p","e","a","t","e","d"," ","T","i","m","e","s","t","a","m","p"," ","t","s"," ","="," ","3",";","\n"," "," ","M"," ","m"," ","="," ","2",";","\n","}">>,
     <<"m","e","s","s","a","g","e"," ","A"," ","{","\n"," "," ","m","e","s","s","a","g","e"," ","I","n","n","e","r"," ","{","\n"," "," "," "," ","i","n","t","3","2"," ","x"," ","="," ","1",";","\n"," "," ","}","\n","}">>,
     <<"m","e","s","s","a","g","e"," ","B"," ","{","\n"," "," ","m","e","s","s","a","g","e"," ","I","n","n","e","r"," ","{","\n"," "," "," "," ","b","o","o","l"," ","y"," ","="," ","1",";","\n"," "," ","}","\n"," "," ","I","n","n","e","r"," ","i"," ","="," ","2",";","\n","}">>}

protoText(ms) == join(ms, <<"\n">>)

InitProto ==
    /\ kind = "proto"
    /\ entry = "convert"
    /\ parts \in SeqsUpTo(ProtoMessages, MaxMessages)
    /\ input = protoText(parts)
    /\ options = Undefined
    /\ heap = NoHeap
    /\ regexLeft = 0
    /\ result = Pending
    /\ calls = <<>>

\* XML texts whose elements hold a timestamp or a number
StampedPieces == {<<"<","a","t",">","2","0","2","4","-","0","1","-","0","1","T","0","0",":","0","0",":","0","0","<","/","a","t",">">>, <<"<","t","a","g",">","1","<","/","t","a","g",">">>, <<"<","o","n",">","2","0","2","4","-","0","1","-","0","1","<","/","o","n",">">>}

InitStamped ==
    /\ kind = "xml"
    /\ entry = "convert"
    /\ parts \in [wrap : {"root"}, body : SeqsUpTo(StampedPieces, MaxPieces)]
    /\ input = xmlText(parts)
    /\ options = Undefined
    /\ heap = NoHeap
    /\ regexLeft = 0
    /\ result = Pending
    /\ calls = <<>>

\* conversions of every kind that renders imports or timestamp fields
InitImports ==
    \/ InitTypes /\ parts.tail = <<>>
    \/ InitProto
    \/ InitStamped
    \/ InitCsv

NextImports == Convert
SpecImports == InitImports /\ [][NextImports]_vars

\* some rendered field has a type that holds the text t
FieldOfType(t) == \E j \in 1..Len(result.fields) : includes(result.fields[j].type, t)

\* the output begins with an import block, and the block lists imp
HasImportBlock == startsWith(result.text, <<"i","m","p","o","r","t"," ","(","\n">>)
Lists(imp) == HasImportBlock /\ includes(result.text, <<"\t","\"">> \o imp \o <<"\"","\n">>)

\* C17: for every kind, the output carries the imports its fields need: an
\* import block that lists time whenever a field has the type time.Time,
\* one that lists encoding/json whenever a field has the type
\* json.RawMessage, and no import block when no field needs an import.
C17_ImportsFollowFields ==
    (entry = "convert" /\ result.status = "ok") =>
        /\ FieldOfType(<<"t","i","m","e",".","T","i","m","e">>) => Lists(<<"t","i","m","e">>)
        /\ FieldOfType(<<"j","s","o","n",".","R","a","w","M","e","s","s","a","g","e">>) => Lists(<<"e","n","c","o","d","i","n","g","/","j","s","o","n">>)
        /\ (~FieldOfType(<<"t","i","m","e",".","T","i","m","e">>) /\ ~FieldOfType(<<"j","s","o","n",".","R","a","w","M","e","s","s","a","g","e">>)) => ~HasImportBlock


-----------------------------------------------------------------------------
(* JSON arrays of a few elements: scalars, null, arrays and an object, each *)
(* with the descriptor inferGoType gives it                                 *)

MaxElems == 2

SeqElems ==
    {[text |-> <<"1">>,       type |-> <<"i","n","t">>,         isPointer |-> FALSE, isArray |-> FALSE],
     [text |-> <<"2",".","5">>,     type |-> <<"f","l","o","a","t","6","4">>,     isPointer |-> FALSE, isArray |-> FALSE],
     [text |-> <<"\"","s","\"">>,     type |-> <<"s","t","r","i","n","g">>,      isPointer |-> FALSE, isArray |-> FALSE],
     [text |-> <<"t","r","u","e">>,    type |-> <<"b","o","o","l">>,        isPointer |-> FALSE, isArray |-> FALSE],
     [text |-> <<"n","u","l","l">>,    type |-> <<"i","n","t","e","r","f","a","c","e","{","}">>, isPointer |-> TRUE,  isArray |-> FALSE],
     [text |-> <<"[","2","]">>,     type |-> <<"i","n","t">>,         isPointer |-> FALSE, isArray |-> TRUE],
     [text |-> <<"[","\"","s","\"","]">>,   type |-> <<"s","t","r","i","n","g">>,      isPointer |-> FALSE, isArray |-> TRUE],
     [text |-> <<"[","]">>,      type |-> <<"i","n","t","e","r","f","a","c","e","{","}">>, isPointer |-> FALSE, isArray |-> TRUE],
     [text |-> <<"{","\"","k","\"",":","1","}">>, type |-> <<"A","u","t","o","G","e","n","N">>,    isPointer |-> FALSE, isArray |-> FALSE]}

seqJson(es) == <<"{","\"","n","\"",":"," ","[">> \o join([j \in 1..Len(es) |-> es[j].text], <<","," ">>) \o <<"]","}">>

InitSeq ==
    /\ kind \in {"json", "yaml"}
    /\ entry = "convert"
    /\ parts \in SeqsUpTo(SeqElems, MaxElems) \ {<<>>}
    /\ input = seqJson(parts)
    /\ options = Undefined
    /\ heap = NoHeap
    /\ regexLeft = 0
    /\ result = Pending
    /\ calls = <<>>

NextSeq == Convert
SpecSeq == InitSeq /\ [][NextSeq]_vars

\* every element of the array has the descriptor of the first one
SameDescriptors ==
    \A j \in 1..Len(parts) :
       /\ parts[j].type = parts[1].type
       /\ parts[j].isPointer = parts[1].isPointer
       /\ parts[j].isArray = parts[1].isArray

\* C18: the field of a non-empty array is always marked array; its element
\* type is the descriptor of the elements when all of them have the same
\* descriptor (base type, pointer flag and array shape), and interface{}
\* without pointer otherwise; so [1, [2]] has the element type interface{}.
C18_ElementTypeOnlyWhenIdentical ==
    (entry = "convert" /\ result # Pending) =>
        /\ result.status = "ok"
        /\ Len(result.fields) = 1
        /\ result.fields[1].isArray
        /\ result.fields[1].type = (IF SameDescriptors THEN parts[1].type ELSE <<"i","n","t","e","r","f","a","c","e","{","}">>)
        /\ result.fields[1].isPointer = (SameDescriptors /\ parts[1].isPointer)


-----------------------------------------------------------------------------
(* Object graphs without a cycle in which an object is shared: a root       *)
(* object, a middle object or array, and a leaf object                      *)

One == Num(FALSE, <<"1">>, <<>>)
Mid == RefV(2)
Leaf == RefV(3)

InitShared ==
    /\ kind = "json"
    /\ entry = "jsonToGo"
    /\ parts = <<>>
    /\ input = <<>>
    /\ options = Undefined
    /\ \E root \in SeqsUpTo({One, Mid, Leaf}, Len(HeapKeys)),
          mid \in SeqsUpTo({One, Leaf}, Len(HeapKeys)),
          leaf \in SeqsUpTo({One}, Len(HeapKeys)) :
         /\ heap \in [nodes : {<<ObjNode(keyed(root)), m, ObjNode(keyed(leaf))>> :
                                 m \in {ObjNode(keyed(mid)), ArrNode(mid)}},
                      root : {1}]
    /\ regexLeft = 0
    /\ result = Pending
    /\ calls = <<>>

NextShared == CallJsonToGo
SpecShared == InitShared /\ [][NextShared]_vars

\* the properties of the root, and of the middle node
RootProps == heap.nodes[heap.root].props
MidProps == heap.nodes[Mid.id].props

\* property j of the root holds an object
HoldsObject(j) ==
    \/ RootProps[j][2] = Leaf
    \/ RootProps[j][2] = Mid /\ heap.nodes[Mid.id].kind = "object"

\* property j of the root holds a non-empty array of which every element is
\* the leaf object
HoldsLeaves(j) ==
    /\ RootProps[j][2] = Mid
    /\ heap.nodes[Mid.id].kind = "array"
    /\ MidProps # <<>>
    /\ \A k \in 1..Len(MidProps) : MidProps[k] = Leaf

\* field j of the root struct has the nested struct of its key as type
NestedStruct(j) ==
    /\ result.fields[j].type = <<"A","u","t","o","G","e","n">> \o capitalizeFirst(RootProps[j][1])
    /\ ~result.fields[j].isPointer

\* C19: in an object graph without a cycle an object that occurs in several
\* sibling positions (under two keys of one parent, or twice as an element
\* of one array) is inferred as a nested struct in each position, never as
\* interface{}.
C19_SiblingsInferredAlone ==
    (entry = "jsonToGo" /\ result # Pending) =>
        /\ result.status = "ok"
        /\ Len(result.fields) = Len(RootProps)
        /\ \A j \in 1..Len(RootProps) :
             /\ HoldsObject(j) => (NestedStruct(j) /\ ~result.fields[j].isArray)
             /\ HoldsLeaves(j) => (NestedStruct(j) /\ result.fields[j].isArray)
             /\ (RootProps[j][2] = Mid /\ heap.nodes[Mid.id].kind = "object") =>
                  \A k \in 1..Len(MidProps) :
                     MidProps[k][2] = Leaf =>
                        includes(result.text,
                                 <<"t","y","p","e"," ","A","u","t","o","G","e","n">> \o capitalizeFirst(RootProps[j][1])
                                 \o capitalizeFirst(MidProps[k][1]) \o <<" ","s","t","r","u","c","t"," ","{","\n">>)


-----------------------------------------------------------------------------
(* JSON objects whose members hold nested objects, under keys alike but for *)
(* the case of a letter; and the struct declarations of an output           *)

MaxMembers == 2

NestKeys == {<<"a">>, <<"A">>, <<"a","B">>}
NestValues == {<<"1">>, <<"{","}">>, <<"{","\"","B","\"",":","{","}","}">>, <<"{","\"","b","\"",":","1","}">>}

InitNested ==
    /\ kind \in {"json", "yaml"}
    /\ entry = "convert"
    /\ parts \in SeqsUpTo([key : NestKeys, value : NestValues], MaxMembers)
    /\ input = keysJson(parts)
    /\ options = Undefined
    /\ heap = NoHeap
    /\ regexLeft = 0
    /\ result = Pending
    /\ calls = <<>>

InitNames ==
    \/ InitNested
    \/ InitProto

NextNames == Convert
SpecNames == InitNames /\ [][NextNames]_vars

\* the names of the struct declarations of a Go text, in order: the word
\* between "type " and " struct {" of every line that declares a struct
StructNames(text) ==
    LET decls == SelectSeq(splitLines(text),
                           LAMBDA l : startsWith(l, <<"t","y","p","e"," ">>) /\ endsWith(l, <<" ","s","t","r","u","c","t"," ","{">>))
    IN  [j \in 1..Len(decls) |-> SubSeq(decls[j], Len(<<"t","y","p","e"," ">>) + 1, Len(decls[j]) - Len(<<" ","s","t","r","u","c","t"," ","{">>))]

\* C20: in the output of one convert call no two struct declarations have
\* the same name: the names given to the nested objects of a JSON or YAML
\* text differ from each other and from AutoGen, and every message of a
\* Protobuf text gives a struct of a name of its own.
C20_StructNamesDistinct ==
    (entry = "convert" /\ result.status = "ok") =>
        LET names == StructNames(result.text)
        IN  \A i, j \in 1..Len(names) : names[i] = names[j] => i = j


-----------------------------------------------------------------------------
(* Protobuf texts of one message and a few field lines, some of them with   *)
(* names that hold the words message, syntax or package                     *)

MaxFields == 2

FieldTypes == {<<"s","t","r","i","n","g">>, <<"i","n","t","3","2">>, <<"T","i","m","e","s","t","a","m","p">>}
FieldNames == {<<"i","d">>, <<"m","e","s","s","a","g","e">>, <<"s","y","n","t","a","x","_","v">>, <<"m","y","_","p","a","c","k","a","g","e">>}

fieldLineText(f) ==
    <<" "," ">> \o (IF f.repeated THEN <<"r","e","p","e","a","t","e","d"," ">> ELSE <<>>) \o f.type \o <<" ">> \o f.name \o <<" ","="," ","1",";">>

fieldsText(fs) ==
    <<"m","e","s","s","a","g","e"," ","M"," ","{","\n">> \o Concat([j \in 1..Len(fs) |-> fieldLineText(fs[j]) \o <<"\n">>]) \o <<"}">>

InitFields ==
    /\ kind = "proto"
    /\ entry = "convert"
    /\ parts \in SeqsUpTo([repeated : BOOLEAN, type : FieldTypes, name : FieldNames], MaxFields)
    /\ input = fieldsText(parts)
    /\ options = Undefined
    /\ heap = NoHeap
    /\ regexLeft = 0
    /\ result = Pending
    /\ calls = <<>>

NextFields == Convert
SpecFields == InitFields /\ [][NextFields]_vars

\* the Go type of a field line: the mapped type, with the array marker when
\* the line begins with repeated
FieldGoType(f) == (IF f.repeated THEN <<"[","]">> ELSE <<>>) \o protoTypeToGo(f.type)

\* the struct of message M with one line for every field line, in order
FieldsStruct ==
    <<"t","y","p","e"," ","M"," ","s","t","r","u","c","t"," ","{","\n">>
    \o Concat([j \in 1..Len(parts) |->
                 <<"\t">> \o capitalizeFirst(parts[j].name) \o <<" ">> \o FieldGoType(parts[j])
                 \o <<" ",Bq,"j","s","o","n",":","\"">> \o parts[j].name \o <<"\"",Bq,"\n">>])
    \o <<"}","\n">>

\* C21: every field line after a message line gives exactly one field line
\* of the struct of that message, in source order and before the closing
\* line of the struct, of the mapped type with the array marker exactly when
\* repeated is present, whatever the name of the field, names that hold
\* message, syntax or package included.
C21_EveryFieldLineRendered ==
    (entry = "convert" /\ result # Pending) =>
        /\ result.status = "ok"
        /\ Len(result.fields) = Len(parts)
        /\ \A j \in 1..Len(result.fields) :
             /\ result.fields[j].key = parts[j].name
             /\ result.fields[j].type = FieldGoType(parts[j])
             /\ result.fields[j].message = <<"M">>
        /\ endsWith(result.text, FieldsStruct)


-----------------------------------------------------------------------------
(* generateTags called on a field name, a tag style, a comment and a        *)
(* default value; a tagType other than db, gorm and xorm takes the default  *)
(* branch of the switch                                                     *)

TagTypes == {"plain", "db", "gorm", "xorm"}
TagFieldNames == {<<"I","d">>, <<"u","s","e","r","N","a","m","e">>}
TagComments == {<<>>, <<"n","o","t","e">>, <<"s","a","y"," ","\"","h","i","\"">>, <<"i","t","'","s">>, <<"a","\\">>}
TagDefaults == {<<>>, <<"0">>, <<"'","x","'">>, <<"\"","x","\"">>, <<"a","\"","b">>}

InitTagText ==
    /\ kind = "sql"
    /\ entry = "generateTags"
    /\ parts \in [fieldName : TagFieldNames, comment : TagComments, defaultValue : TagDefaults]
    /\ input = <<>>
    /\ options \in {[dbType |-> "mysql", tagType |-> t, usePointer |-> FALSE] : t \in TagTypes}
    /\ heap = NoHeap
    /\ regexLeft = 0
    /\ result = Pending
    /\ calls = <<>>

\* generateTags(fieldName, options, comment, defaultValue)
CallGenerateTags ==
    /\ entry = "generateTags"
    /\ result = Pending
    /\ Answered(Returned(generateTags(parts.fieldName, options, parts.comment,
                                      parts.defaultValue), <<>>, <<>>))
    /\ UNCHANGED <<entry, kind, input, options, parts, heap, regexLeft>>

NextTagText == CallGenerateTags
SpecTagText == InitTagText /\ [][NextTagText]_vars

\* the tag text between its two backquotes
TagBody(text) == SubSeq(text, 2, Len(text) - 1)

\* character i of t follows an odd number of backslashes
Escaped(t, i) ==
    Cardinality({k \in 1..(i - 1) : \A n \in k..(i - 1) : t[n] = "\\"}) % 2 = 1

\* the double quotes of t that no backslash escapes
BareQuotes(t) == {i \in 1..Len(t) : t[i] = "\"" /\ ~Escaped(t, i)}

\* the bare double quotes of t come in pairs, the first of a pair after a
\* colon and the second before a space or at the end: t is a list of
\* key:"value" tags
WellQuoted(t) ==
    LET q == BareQuotes(t)
    IN  /\ Cardinality(q) % 2 = 0
        /\ \A i \in q :
             IF Cardinality({k \in q : k <= i}) % 2 = 1
             THEN i > 1 /\ t[i - 1] = ":"
             ELSE i = Len(t) \/ t[i + 1] = " "

\* s with a letter in the place of every double quote
Unquoted(s) == replaceAllCh(s, "\"", <<"q">>)

\* C22: the text of generateTags begins, after its backquote, with
\* json:"<name>" yaml:"<name>" of the lower-cased field name; it is a list
\* of key:"value" tags; and the double quotes of the comment and of the
\* default value add no bare double quote to it: it has as many bare double
\* quotes as the text for the same comment and default value without their
\* double quotes.
C22_TagTextWellQuoted ==
    (entry = "generateTags" /\ result # Pending) =>
        /\ result.status = "ok"
        /\ startsWith(TagBody(result.text),
                      <<"j","s","o","n",":","\"">> \o toLowerCase(parts.fieldName) \o <<"\""," ","y","a","m","l",":","\"">>
                      \o toLowerCase(parts.fieldName) \o <<"\"">>)
        /\ WellQuoted(TagBody(result.text))
        /\ Cardinality(BareQuotes(result.text))
             = Cardinality(BareQuotes(generateTags(parts.fieldName, options,
                                                   Unquoted(parts.comment),
                                                   Unquoted(parts.defaultValue))))

=============================================================================
